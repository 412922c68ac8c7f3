------------------------------ MODULE MCFilter ------------------------------
EXTENDS FilterAxi

Read(a, n) == [kind |-> "Read", addr |-> a, len |-> n - 1, words |-> <<>>]
Write(a, ws) == [kind |-> "Write", addr |-> a, len |-> Len(ws) - 1, words |-> ws]

MCBuilds == {[kind |-> "ReadFirst", border |-> "001"],
             [kind |-> "Simple", border |-> "101"],
             [kind |-> "Interleaved", border |-> "001"]}
MCSizes == {<<3, 2>>}
MCOps == {Read("width", 2), Write("reset", <<1>>), Write("width", <<3, 4>>),
          Read("height", 3)}
=============================================================================
