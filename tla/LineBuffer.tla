----------------------------- MODULE LineBuffer -----------------------------
(***************************************************************************)
(* The moving window of an image filter (filterNxM.hpp): pixels arrive row *)
(* by row and frame after frame; line buffers keep the last FH rows, a     *)
(* shift register the last FW columns of them, and the borders are filled  *)
(* in as if the window were cut out of one picture.  There are three line  *)
(* buffers and two borders to choose from.                                 *)
(***************************************************************************)
EXTENDS Integers

CONSTANTS FH, FW,     \* rows and columns of the window
          MaxWidth    \* MAX_WIDTH

Rows == 0 .. FH - 1
Cols == 0 .. FW - 1
Black == 0
Stale == -1      \* what a memory holds that has not been written since Init

-----------------------------------------------------------------------------
(* Borders.  src has n elements, the newest is element i of len. *)

\* A window that ends at i < n / 2 belongs to the line or frame before.
border001(src, n, i, len) ==
  LET ii == (IF i < n \div 2 THEN len ELSE 0) + 1 - n + i
  IN [k \in 0 .. n - 1 |-> IF ii + k \in 0 .. len - 1 THEN src[k] ELSE Black]

\* border101_core: srcEven and srcOdd are the elements an even distance away.
border101(src, n, i, len) ==
  [k \in 0 .. n - 1 |->
     LET after  == k - n + 2 + i
         before == n - k - 1 - i
     IN CASE i < n \div 2 /\ after > 0 -> src[k - 2 * after]
          [] i >= n \div 2 /\ before > 0 -> src[k + 2 * before]
          [] OTHER -> src[k]]

BorderOf(border, src, n, i, len) ==
  IF border = "001" THEN border001(src, n, i, len) ELSE border101(src, n, i, len)

-----------------------------------------------------------------------------
(* LBState and the line buffers.  An odd and an even bank of a line        *)
(* (LineBufInterleaved) are written here as one line.                      *)

FHX(kind) == IF kind = "Simple" THEN FH ELSE FH - 1
InitLines(kind) ==
  [pos_x |-> 0, pos_y |-> 0, lb_pos_y |-> 0,
   lbxbar |-> [i \in 0 .. FHX(kind) - 1 |-> (i + 1 - (FH - FHX(kind))) % FHX(kind)],
   lbvld |-> [i \in Rows |-> i = 0],
   lbuf |-> [i \in 0 .. FHX(kind) - 1 |-> [x \in 0 .. MaxWidth - 1 |-> Stale]],
   w_din |-> Black, w_lb_pos |-> 0, w_addr |-> 0]

\* LBState::Update: at the end of a line the rows move on by one.
NextPos(lb, kind, imW, imH) ==
  LET edge_x == lb.pos_x = imW - 1
      up(y, last) == IF ~edge_x THEN y ELSE IF y = last THEN 0 ELSE y + 1
  IN [lb EXCEPT !.pos_x = IF edge_x THEN 0 ELSE @ + 1,
                !.pos_y = up(@, imH - 1),
                !.lb_pos_y = up(@, FHX(kind) - 1),
                !.lbxbar = IF edge_x THEN [i \in DOMAIN @ |-> @[(i + 1) % FHX(kind)]] ELSE @,
                !.lbvld = IF edge_x THEN [i \in Rows |-> i = 0 \/ @[i - 1]] ELSE @]

\* UpdateData: the column at pos_x, oldest row first, and the memory afterwards.
\* The simple buffer reads the line it writes as din, the others have no room for
\* it; the interleaved one writes a pixel one pixel late, to the other bank.
Column(lb, kind, din) ==
  [i \in Rows |->
     IF IF kind = "Simple" THEN lb.lbxbar[i] = lb.lb_pos_y ELSE i = FH - 1
     THEN din ELSE lb.lbuf[lb.lbxbar[i]][lb.pos_x]]

Written(lb, kind, din) ==
  IF kind = "Interleaved"
  THEN LET bank == lb.pos_x % 2
           x == 2 * lb.w_addr + 1 - bank
       IN [lb EXCEPT !.lbuf[lb.w_lb_pos][x] = lb.w_din,
                     !.w_din = din, !.w_lb_pos = lb.lb_pos_y, !.w_addr = lb.pos_x \div 2]
  ELSE [lb EXCEPT !.lbuf[lb.lb_pos_y][lb.pos_x] = din]

-----------------------------------------------------------------------------
(* ShiftRegWindow and LineBufferRegWindow *)

InitWindow == [w   |-> [i \in Rows |-> [j \in Cols |-> Black]],
               vld |-> [i \in Rows |-> [j \in Cols |-> FALSE]]]
Shift(w, col) == [i \in Rows |-> [j \in Cols |-> IF j = FW - 1 THEN col[i] ELSE w[i][j + 1]]]

InitLbw(kind) == [lb |-> InitLines(kind), srw |-> InitWindow]

\* LineBufferRegWindow::Update, its outputs first: the window, and whether it is one.
Window(lbw, kind, border, din, imW, imH) ==
  LET col == BorderOf(border, Column(lbw.lb, kind, din), FH, lbw.lb.pos_y, imH)
      sr0 == Shift(lbw.srw.w, col)
  IN [i \in Rows |-> BorderOf(border, sr0[i], FW, lbw.lb.pos_x, imW)]
Valid(lbw) == Shift(lbw.srw.vld, lbw.lb.lbvld)[FH \div 2][FW \div 2]
Update(lbw, kind, border, din, imW, imH) ==
  LET col == BorderOf(border, Column(lbw.lb, kind, din), FH, lbw.lb.pos_y, imH)
  IN [lb  |-> NextPos(Written(lbw.lb, kind, din), kind, imW, imH),
      srw |-> [w |-> Shift(lbw.srw.w, col), vld |-> Shift(lbw.srw.vld, lbw.lb.lbvld)]]

-----------------------------------------------------------------------------
(* What the window should be: cut out of one picture, around pixel n of the *)
(* stream (the frames one after the other, pixel n is n + 1).               *)

BORDER_101(x, len) == IF x < 0 THEN -x ELSE IF x > len - 1 THEN 2 * (len - 1) - x ELSE x
Pixel(border, frame, y, x, imW, imH) ==
  LET at(yy, xx) == frame * imW * imH + yy * imW + xx + 1
  IN IF border = "101" THEN at(BORDER_101(y, imH), BORDER_101(x, imW))
     ELSE IF y \in 0 .. imH - 1 /\ x \in 0 .. imW - 1 THEN at(y, x) ELSE Black
Cut(border, n, imW, imH) ==
  LET place == n % (imW * imH)
  IN [i \in Rows |-> [j \in Cols |->
        Pixel(border, n \div (imW * imH), (place \div imW) + i - (FH \div 2),
              (place % imW) + j - (FW \div 2), imW, imH)]]
\* The window around a pixel is complete so many pixels later.
Latency(imW) == (FH \div 2) * imW + (FW \div 2)
=============================================================================
