------------------------------ MODULE MCWords -------------------------------
(***************************************************************************)
(* Small widths and program words for model checking.                      *)
(***************************************************************************)
EXTENDS Integers, Bitwise

MCAnd(x, y) == x & y
MCOr(x, y)  == x | y
MCXor(x, y) == x ^^ y

\* Five-bit words: OV, OVM, INTM, ARP and DP, no fixed ones.
MCStatusBit == [ov |-> 16, ovm |-> 8, intm |-> 4, arp |-> 2, ones |-> 0]

MCRamZero == {[a \in 0 .. 2 |-> 0]}

\* A direct-addressed word of operation op, with neutral fields.
W(op) == [op |-> op, canon |-> FALSE, addr |-> 0, k |-> 1, sh |-> 1,
          port |-> 1, ar |-> 0, ind |-> FALSE, dma |-> 0, inc |-> FALSE,
          dec |-> FALSE, keep |-> TRUE, narp |-> 0, data |-> 1]

\* The same through the selected auxiliary register.
Ind(op) == [W(op) EXCEPT !.ind = TRUE]

\* An operand word: it decodes as ADD.
Target(a) == [W("ADD") EXCEPT !.canon = TRUE, !.addr = a]

\* An operand word that decodes as an undefined addressing form.
Reserved(a) == [Target(a) EXCEPT !.op = "ILLEGAL"]

Inherent(ops) == {W(op) : op \in ops}
=============================================================================
