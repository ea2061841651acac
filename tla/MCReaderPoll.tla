---------------------------- MODULE MCReaderPoll ----------------------------
(* Instances of ReaderPoll for TLC: a good bus, one that loses frames and  *)
(* is late, one that only loses frames while the queue may be full and the *)
(* server registers readers and takes them out, and the bus of the run     *)
(* that mixes up two readers.                                              *)
EXTENDS ReaderPoll

Prompt == [lossy |-> FALSE, late |-> FALSE, full |-> FALSE, readers |-> {1, 2},
           answers |-> {"AA", "BB"}, events |-> 2, wire |-> 6]
Faulty == [lossy |-> TRUE, late |-> TRUE, full |-> FALSE, readers |-> {1},
           answers |-> {}, events |-> 2, wire |-> 2]
Served == [lossy |-> TRUE, late |-> FALSE, full |-> TRUE, readers |-> {1},
           answers |-> {"55", "CC"}, events |-> 1, wire |-> 2]
Quiet  == [lossy |-> FALSE, late |-> FALSE, full |-> FALSE, readers |-> {1, 2},
           answers |-> {}, events |-> 2, wire |-> 6]

AllBuses  == {Prompt, Faulty, Served}
OnlyQuiet == {Quiet}
=============================================================================
