---------------------------- MODULE MCAddrTable -----------------------------
(* Instances of AddrTable for TLC.                                         *)
EXTENDS AddrTable, FiniteSets

(* Three readers; the first two differ in the last byte only.              *)
ThreeReaders == << <<1, 1, 1, 1>>, <<1, 1, 1, 2>>, <<2, 1, 1, 1>> >>

(* Readers come and go between power-ups.                                  *)
AnyReaders == SUBSET Readers

(* Two bytes of configuration right behind a table of two slots.           *)
SmallConfig == << <<15, 7>>, <<16, 8>> >>

(* The defaults that AT24CXX_Check writes: key and block, address and port *)
(* of the server, serial number and communication code.                    *)
RealConfig ==
  LET From(a, bytes) == [k \in 1..Len(bytes) |-> <<a + k - 1, bytes[k]>>]
  IN  From(230, <<255, 255, 255, 255, 255, 241, 41>>)
        \o From(200, <<123, 57, 150, 25>>)
        \o From(204, <<78, 32>>)
        \o From(206, <<32, 32, 1, 2>>)
        \o From(210, <<49, 48, 48, 48, 48, 48, 48, 45,
                       98, 55, 54, 49, 99, 50, 98, 48>>)

(* As many readers as it takes to reach the slot at address 200.           *)
FortyReaders == [r \in 1..40 |-> <<32, 32, 1, r>>]

(* They are all there from the start.                                      *)
AllReaders == {Readers}

(* One of the orders in which they can announce themselves: each one       *)
(* is given its address before the next one speaks.                        *)
InOrder ==
  /\ \A r, q \in Readers : r < q /\ sn = SN[q] => logic[r] # 0
  /\ pc = "window" => ucCount + Cardinality({r \in Readers : logic[r] # 0}) = WINDOW
=============================================================================
