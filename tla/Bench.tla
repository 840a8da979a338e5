-------------------------------- MODULE Bench --------------------------------
(***************************************************************************)
(* The bench the captures come from: a device that behaves in one of       *)
(* several ways runs a fixture, and an analyzer records one row for each   *)
(* falling CLKOUT edge.  It is the environment of the capture tools.       *)
(***************************************************************************)
EXTENDS RamCaptures

\* The fixtures of each tool, in the order in which it goes through them.
Sides ==
  [push_pop |-> <<"push_pop">>, simultaneous |-> <<"simultaneous">>,
   lst_arp |-> <<"lst_arp">>, dint |-> <<"dint">>,
   DEPENDENCY |-> <<"DEPENDENCY">>, OVERFLOW |-> <<"OVERFLOW">>,
   invalid_read |-> <<"invalid_read">>,
   invalid_write |-> <<"ASCENDING", "DESCENDING">>,
   boundary |-> <<"DMOV", "LTD">>, reset |-> <<"SET", "CLEAR">>]
Tools == DOMAIN Sides

R(word) == <<[kind |-> "read", val |-> word]>>
O(word) == <<[kind |-> "out", val |-> word]>>
RO(word, value) == R(word) \o O(value)
Row(kind) == <<[kind |-> kind, val |-> "none"]>>
IdleRows(k) == Repeat(k, LAMBDA i : Row("idle"))
Ending == R("terminal") \o IdleRows(4)

\* What the device does to tell the hypotheses apart, and what it outputs.
Behaviours(t) ==
  CASE t = "push_pop" -> [H1 |-> "H1", H2 |-> "H2", H3 |-> "H3",
                          stall |-> "UNCLASSIFIED"]
    [] t = "simultaneous" ->
         [none |-> "NO_NET_UPDATE", inc |-> "INCREMENT_PRIORITY",
          dec |-> "DECREMENT_PRIORITY", odd |-> "OTHER",
          hang1 |-> "AFTER_FIRST", hang2 |-> "AFTER_SECOND"]
    [] t = "lst_arp" -> [mem |-> "MEMORY", enc |-> "ENCODED",
                         mix |-> "MIXED_A_MEMORY"]
    [] t = "DEPENDENCY" -> [old |-> "OLD", trial |-> "TRIAL", final |-> "FINAL"]
    [] t = "OVERFLOW" -> [early |-> <<1, 0>>, late |-> <<0, 1>>, bad |-> <<1, 1>>]
    [] t = "dint" -> [cancels |-> "CANCELS", n2 |-> "STACKS_N2",
                      n1 |-> "STACKS_N1", late |-> "CANCELS"]
    [] t = "invalid_read" -> [track |-> "PREDECESSOR_TRACKING",
                              fixed |-> "HISTORY_INDEPENDENT",
                              odd |-> "HISTORY_DEPENDENT", stop |-> "stopped"]
    [] t = "invalid_write" -> [ignored |-> <<{}, "ZERO">>,
                               stored |-> <<{}, "STORED">>,
                               alias |-> <<{1}, "ZERO">>, stop |-> "stopped"]
    [] t = "boundary" -> [ignored |-> {}, alias |-> {2}, stop |-> "stopped"]
    [] t = "reset" -> [keep |-> "keep", clear |-> "clear", ovm |-> "ovm",
                       stop |-> "stopped"]

\* The state before and after a reset.
Before(side) == IF side = "SET" THEN <<"a5", "1">> ELSE <<"3c", "0">>
After(side, d) ==
  <<IF d = "clear" THEN "0" ELSE Before(side)[1],
    IF d = "ovm" THEN "0" ELSE Before(side)[2]>>

\* The values the program puts out on port 7, in order.
Outputs(t, side, d) ==
  CASE t = "push_pop" -> <<>>
    [] t = "simultaneous" ->
        (CASE d = "none" -> <<"33", "0", "1ff">> [] d = "inc" -> <<"33", "1", "0">>
           [] d = "dec" -> <<"33", "1ff", "1fe">> [] d = "odd" -> <<"33", "5", "6">>
           [] d = "hang1" -> <<"33">> [] d = "hang2" -> <<"33", "5">>)
    [] t = "lst_arp" -> <<"33", IF d = "enc" THEN "a1" ELSE "a0",
                          IF d = "mem" THEN "b1" ELSE "b0">>
    [] t \in {"DEPENDENCY", "OVERFLOW"} ->
        (CASE d = "old" -> <<"5", "b">> [] d = "trial" -> <<"8005", "b">>
           [] d = "final" -> <<"b", "b">> [] d = "early" -> <<"ov", "no-ov">>
           [] d = "late" -> <<"no-ov", "ov">> [] d = "bad" -> <<"ov", "ov-bad">>)
    [] t = "dint" ->
        (CASE d = "n2" -> <<"33", "1c", "11", "22">>
           [] d = "n1" -> <<"33", "1b", "11", "22">> [] OTHER -> <<"33", "22">>)
    [] t = "invalid_read" ->
         LET half == 2 * AbsentCount + 1   \* an introduction and a read each
             zero == IF d \in {"track", "odd"} THEN "0" ELSE "7"
             one == CASE d = "track" -> "ffff" [] d = "odd" -> "5" [] OTHER -> "7"
             length == IF d = "stop" THEN half + 1 ELSE 2 * half + 1
         IN [i \in 1..length |->
               CASE i = 1 -> "31" [] i = half + 1 -> "32" [] i = 2 * half + 1 -> "3f"
                 [] i \in 2..half -> IF i % 2 = 0 THEN "0" ELSE zero
                 [] OTHER -> IF i % 2 = 1 THEN "ffff" ELSE one]
    [] t = "invalid_write" ->
         LET scanned == ValidCount + 1
             length == IF d = "stop" THEN scanned ELSE scanned + AbsentCount + 1
         IN [i \in 1..length |->
               CASE i = 1 -> IF side = "ASCENDING" THEN "41" ELSE "42"
                 [] i \in 2..scanned -> IF d = "alias" /\ i = 2 THEN "sentinel" ELSE "0"
                 [] i \in (scanned + 1)..(scanned + AbsentCount) ->
                      IF d = "stored" THEN "sentinel" ELSE "0"
                 [] OTHER -> "4f"]
    [] t = "boundary" ->
         [i \in 1..(IF d = "stop" THEN ValidCount ELSE ValidCount + 1) |->
            CASE i = 1 -> "5a" [] i = ValidCount + 1 -> "7"
              [] OTHER -> IF d = "alias" /\ i = 2 THEN "5a" ELSE "0"]
    [] t = "reset" ->
         Before(side) \o <<side>> \o After(side, d) \o IF d = "stop" THEN <<>> ELSE <<"af">>

\* The streams of rows: the fetches around the outputs out.
PushPopOp(op, d) ==
  R(op[1]) \o
  CASE d = "H1" -> Row("idle") \o R(op[2]) \o R(op[3])
    [] d = "H2" -> R(op[2]) \o R(op[2]) \o R(op[3])
    [] d = "H3" -> R(op[2]) \o R(op[3]) \o Row("idle")
    [] d = "stall" -> R(op[2]) \o Row("idle") \o R(op[3])

PushPopStream(d) ==
  PushPopOp(Push, d) \o PushPopOp(Pop, d) \o Repeat(4, LAMBDA i : R("loop"))

ForcedPair(out) ==
  R("armed") \o O(out[1]) \o R("forced1")
  \o IF Len(out) = 1 THEN IdleRows(4)
     ELSE RO("result1", out[2]) \o R("forced2")
          \o IF Len(out) = 2 THEN IdleRows(4) ELSE RO("result2", out[3]) \o Ending

LstArpStream(out) ==
  RO("out1", out[1]) \o RO("out2", out[2]) \o RO("out3", out[3]) \o IdleRows(2)

SubcStream(out) == RO("out1", out[1]) \o RO("out2", out[2]) \o IdleRows(2)

DintStream(out) ==
  O(out[1]) \o R("arm") \o R("dint")
  \o Repeat(Len(out) - 1, LAMBDA i : O(out[i + 1])) \o IdleRows(2)

ReadStream(out, stop) ==
  LET middle == 2 * AbsentCount + 2
  IN RO("start", out[1])
     \o Repeat(AbsentCount, LAMBDA i : RO("zero", out[2 * i]) \o RO("absent0", out[2 * i + 1]))
     \o RO("middle", out[middle])
     \o IF stop THEN IdleRows(4)
        ELSE Repeat(AbsentCount, LAMBDA i : RO("one", out[middle + 2 * i - 1])
                                            \o RO("absent1", out[middle + 2 * i]))
             \o RO("end", out[2 * middle - 1]) \o Ending

WriteStream(out, stop) ==
  RO("start", out[1]) \o Repeat(ValidCount, LAMBDA i : RO("scan", out[i + 1]))
  \o IF stop THEN IdleRows(4)
     ELSE Repeat(AbsentCount, LAMBDA i : RO("absent", out[ValidCount + 1 + i]))
          \o RO("end", out[ValidCount + AbsentCount + 2]) \o Ending

BoundaryStream(out, stop) ==
  R("boundary") \o Repeat(ValidCount, LAMBDA i : RO("scan", out[i]))
  \o IF stop THEN IdleRows(4) ELSE RO("diagnostic", out[ValidCount + 1]) \o Ending

ResetStream(out, target) ==
  R("bioz") \o RO("pre-acc", out[1]) \o RO("pre-ovm", out[2])
  \o RO("armed", out[3]) \o R("hold")
  \o Repeat(target + 1, LAMBDA i : Row(IF i = 1 THEN "busy-reset" ELSE "reset"))
  \o Row("idle") \o R("bioz") \o R("target")
  \o RO("post-acc", out[4]) \o RO("post-ovm", out[5])
  \o IF Len(out) = 5 THEN IdleRows(4) ELSE RO("done", out[6]) \o Ending

Stream(t, side, d, target) ==
  LET out == Outputs(t, side, d) IN
  CASE t = "push_pop" -> PushPopStream(d)
    [] t = "simultaneous" -> ForcedPair(out)
    [] t = "lst_arp" -> LstArpStream(out)
    [] t \in {"DEPENDENCY", "OVERFLOW"} -> SubcStream(out)
    [] t = "dint" -> DintStream(out)
    [] t = "invalid_read" -> ReadStream(out, d = "stop")
    [] t = "invalid_write" -> WriteStream(out, d = "stop")
    [] t = "boundary" -> BoundaryStream(out, d = "stop")
    [] t = "reset" -> ResetStream(out, target)

\* The rows as recorded: numbered from 1, those in dropped missing; the pin is
\* low at the samples in low.
Recorded(stream, dropped, low) ==
  LET at == SelectSeq([i \in DOMAIN stream |-> i], LAMBDA i : i \notin dropped)
  IN [k \in DOMAIN at |->
        [n |-> at[k], kind |-> stream[at[k]].kind, val |-> stream[at[k]].val,
         pin |-> IF at[k] \in low THEN 0 ELSE 1]]

\* What the classification of a faithful recording has to be.
DeviceClass(t, side, d) ==
  LET known == Behaviours(t)[d]
      was(k) == IF After(side, d)[k] = Before(side)[k] THEN "RETAINED" ELSE "FORCED_ZERO"
  IN CASE t = "push_pop" -> <<known, known>>
       [] t = "invalid_read" -> [k \in 1..AbsentCount |-> known]
       [] t = "invalid_write" /\ d # "stop" ->
            <<known[1], [k \in 1..AbsentCount |-> known[2]]>>
       [] t = "boundary" -> <<known, "7">>
       [] t = "reset" -> [k \in DOMAIN StateWords |->
                            [relation |-> was(k), post |-> After(side, d)[k]]]
       [] OTHER -> known
=============================================================================
