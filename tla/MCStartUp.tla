------------------------------ MODULE MCStartUp -----------------------------
EXTENDS StartUp

MCAttached == [a \in {"-fdata"} |-> "data"]
MCNumbers ==
  [a \in {"1", "4", "5", "-1"} |->
     CASE a = "1" -> 1 [] a = "4" -> 4 [] a = "5" -> 5 [] a = "-1" -> -1]
MCHosts == [h \in {"::", "::1"} |-> h]
MCFiles == [f \in {"data"} |-> <<"c", "c", "c">>]

\* Inputs of one byte repeated: what another sender wrote can be told apart.
Input(byte, length) == [i \in 1 .. length |-> byte]

Started(argv, stdin) == [argv |-> argv, stdin |-> stdin]
At(port) == <<"::1", port>>

\* What two senders in one directory read; no receiver needs to be there.
FileOptions ==
  {<<>>, <<"-f", "data">>, <<"-f", "stdin">>, <<"-f", "stdin.txt">>, <<"-f", "none">>}

ReadStarts ==
  {[p \in {"s1", "s2"} |->
      CASE p = "s1" -> Started(At("1"), Input("a", n1))
        [] p = "s2" -> Started(options \o At("1"), Input("b", n2))] :
   options \in FileOptions, n1 \in {0, 4}, n2 \in {0, 1, 5}}

\* One sender whose file takes more packets than there are sequence numbers.
LongStarts ==
  {[p \in {"s1"} |-> Started(At("1"), Input("a", n))] : n \in 7 .. 12}

\* Two senders to one receiver.
PeerStarts ==
  {[p \in {"s1", "s2", "r1"} |->
      CASE p = "s1" -> Started(At("1"), <<"a">>)
        [] p = "s2" -> Started(<<"-f", "data">> \o At(port), <<>>)
        [] p = "r1" -> Started(<<"::", "1">>, <<>>)] :
   port \in {"1", "5"}}

\* Any arguments for a sender and for a receiver.
Words == {"-f", "-fdata", "data", "::1", "1", "5", "-1", "--", "-x"}
Arguments == UNION {[1 .. n -> Words] : n \in 0 .. 4}

OptionsStarts ==
  {[p \in {name} |-> Started(argv, <<>>)] : name \in {"s1", "r1"}, argv \in Arguments}

\* Two receivers, on one port or not.
ReceiversStarts ==
  {[p \in {"s1", "r1", "r2"} |->
      CASE p = "s1" -> Started(At(port), <<>>)
        [] p = "r1" -> Started(<<"::", "1">>, <<>>)
        [] p = "r2" -> Started(<<host, port2>>, <<>>)] :
   port \in {"0", "1", "5", "4"}, host \in {"::", "::1"},
   port2 \in {"0", "1", "5", "4"}}

MCStarts ==
  ReadStarts \cup LongStarts \cup PeerStarts \cup OptionsStarts \cup ReceiversStarts
=============================================================================
