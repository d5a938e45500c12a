--------------------------- MODULE TGRSIintProofs ---------------------------
(***************************************************************************)
(* Proofs about TGRSIint, for any options, any number of threads that call *)
(* ProcessLine and any number of events.                                   *)
(***************************************************************************)
EXTENDS TGRSIint, SequenceTheorems, TLAPS

-----------------------------------------------------------------------------
(* The fields of the queues *)

IsQueue(q) == q = Queue(q.from, q.to, q.item)

LEMMA Fields ==
    ASSUME NEW a, NEW b, NEW c
    PROVE  LET q == Queue(a, b, c) IN
           q.from = a /\ q.to = b /\ q.item = c /\ IsQueue(q)
BY DEF Queue, IsQueue

\* What the queues of each kind are.
LEMMA RawMember ==
    ASSUME NEW o, NEW q \in RawQueues(o)
    PROVE  /\ ReadFromRaw(o)
           /\ IsQueue(q)
           /\ \/ /\ q.from = "1_input_loop"
                 /\ q.to = "2_unpack_loop"
                 /\ q.item = "event"
              \/ /\ q.from = "2_unpack_loop"
                 /\ q.to = IF WriteFragmentTree(o) THEN "4_frag_write_loop"
                           ELSE Nobody
                 /\ q.item \in {"bad", "scaler"}
<1>1. ReadFromRaw(o)
  BY DEF RawQueues
<1>2. \/ q = Queue("1_input_loop", "2_unpack_loop", "event")
      \/ q = Queue("2_unpack_loop", IF WriteFragmentTree(o)
                   THEN "4_frag_write_loop" ELSE Nobody, "bad")
      \/ q = Queue("2_unpack_loop", IF WriteFragmentTree(o)
                   THEN "4_frag_write_loop" ELSE Nobody, "scaler")
  BY DEF RawQueues
<1> QED
  BY <1>1, <1>2, Fields

LEMMA FragmentMember ==
    ASSUME NEW o, NEW q \in FragmentQueues(o)
    PROVE  /\ IsQueue(q)
           /\ q.item = "fragment"
           /\ \/ /\ ReadFromFragmentTree(o)
                 /\ q.from = "1_chain_loop"
                 /\ q.to \in FragmentReceivers(o)
              \/ /\ ReadFromRaw(o) /\ ReadFromFragmentTree(o)
                 /\ q.from = "2_unpack_loop"
                 /\ q.to = Nobody
              \/ /\ ReadFromRaw(o) /\ ~ReadFromFragmentTree(o)
                 /\ q.from = "2_unpack_loop"
                 /\ q.to \in FragmentReceivers(o)
<1>1. PICK l \in FragmentReceivers(o) :
         \/ ReadFromFragmentTree(o) /\ q = Queue("1_chain_loop", l, "fragment")
         \/ /\ ReadFromRaw(o) /\ ReadFromFragmentTree(o)
            /\ q = Queue("2_unpack_loop", Nobody, "fragment")
         \/ /\ ReadFromRaw(o) /\ ~ReadFromFragmentTree(o)
            /\ q = Queue("2_unpack_loop", l, "fragment")
  BY DEF FragmentQueues
<1> QED
  BY <1>1, Fields

LEMMA AnalysisMember ==
    ASSUME NEW o, NEW q \in AnalysisQueues(o)
    PROVE  /\ GenerateAnalysisData(o)
           /\ IsQueue(q)
           /\ \/ /\ q.from = "5_event_build_loop"
                 /\ q.to = "6_det_build_loop"
                 /\ q.item = "event"
              \/ /\ q.from = "6_det_build_loop"
                 /\ q.to \in DetectorReceivers(o)
                 /\ q.item = "detectors"
              \/ /\ q.from = "5_event_build_loop"
                 /\ q.to = IF WriteAnalysisTree(o) THEN "8_analysis_write_loop"
                           ELSE Nobody
                 /\ q.item = "out_of_order"
<1>1. GenerateAnalysisData(o)
  BY DEF AnalysisQueues
<1>2. q \in {Queue("5_event_build_loop", "6_det_build_loop", "event")}
         \cup {Queue("6_det_build_loop", l, "detectors") : l \in DetectorReceivers(o)}
         \cup {Queue("5_event_build_loop",
                     IF WriteAnalysisTree(o) THEN "8_analysis_write_loop"
                     ELSE Nobody, "out_of_order")}
  BY <1>1 DEF AnalysisQueues
<1>3. ASSUME q = Queue("5_event_build_loop", "6_det_build_loop", "event")
      PROVE  /\ IsQueue(q)
             /\ q.from = "5_event_build_loop"
             /\ q.to = "6_det_build_loop"
             /\ q.item = "event"
  BY <1>3, Fields
<1>4. ASSUME NEW l \in DetectorReceivers(o), q = Queue("6_det_build_loop", l, "detectors")
      PROVE  /\ IsQueue(q)
             /\ q.from = "6_det_build_loop"
             /\ q.to \in DetectorReceivers(o)
             /\ q.item = "detectors"
  BY <1>4, Fields
<1>5. ASSUME NEW l, q = Queue("5_event_build_loop", l, "out_of_order")
      PROVE  /\ IsQueue(q)
             /\ q.from = "5_event_build_loop"
             /\ q.to = l
             /\ q.item = "out_of_order"
  BY <1>5, Fields
<1>6. CASE q = Queue("5_event_build_loop", "6_det_build_loop", "event")
  BY <1>1, <1>3, <1>6
<1>7. CASE q \in {Queue("6_det_build_loop", l, "detectors") : l \in DetectorReceivers(o)}
  BY <1>1, <1>4, <1>7
<1>8. CASE q = Queue("5_event_build_loop",
                     IF WriteAnalysisTree(o) THEN "8_analysis_write_loop"
                     ELSE Nobody, "out_of_order")
  BY <1>1, <1>5, <1>8
<1> QED
  BY <1>2, <1>6, <1>7, <1>8

LEMMA Receivers ==
    ASSUME NEW o
    PROVE  /\ FragmentReceivers(o) \subseteq
                {"3_frag_hist_loop", "4_frag_write_loop", "4_frag_diag_loop",
                 "5_event_build_loop"}
           /\ DetectorReceivers(o) \subseteq
                {"7_analysis_hist_loop", "8_analysis_write_loop"}
BY DEF FragmentReceivers, DetectorReceivers

LEMMA QueueCases ==
    ASSUME NEW o, NEW q \in QueuesOf(o)
    PROVE  q \in RawQueues(o) \/ q \in FragmentQueues(o) \/ q \in AnalysisQueues(o)
BY DEF QueuesOf

-----------------------------------------------------------------------------
(* How the loops are connected *)

LEMMA Orphans ==
    ASSUME NEW o
    PROVE  OrphansOnlyWhenAllowed(o)
<1> SUFFICES ASSUME NEW q \in QueuesOf(o), q.to = Nobody
             PROVE  \/ o.raw /\ o.fragmentTree
                    \/ q.item \in {"bad", "scaler"} /\ ~o.writeFragmentTree
                    \/ q.item = "out_of_order" /\ ~o.makeAnalysisTree
  BY DEF OrphansOnlyWhenAllowed
<1>1. CASE q \in RawQueues(o)
  BY <1>1, RawMember DEF Nobody, ReadFromRaw, WriteFragmentTree
<1>2. CASE q \in FragmentQueues(o)
  BY <1>2, FragmentMember, Receivers DEF Nobody, ReadFromRaw, ReadFromFragmentTree
<1>3. CASE q \in AnalysisQueues(o)
  BY <1>3, AnalysisMember, Receivers
  DEF Nobody, GenerateAnalysisData, ReadFromRaw, ReadFromFragmentTree, WriteAnalysisTree
<1> QED
  BY <1>1, <1>2, <1>3, QueueCases

\* One queue of a kind to a loop: its ends and its item determine the source.
LEMMA Once ==
    ASSUME NEW o, NEW p \in QueuesOf(o), NEW q \in QueuesOf(o),
           p.to = q.to, p.item = q.item, q.to # Nobody
    PROVE  p = q
<1>1. ASSUME NEW r \in QueuesOf(o), r.to # Nobody
      PROVE  /\ IsQueue(r)
             /\ \/ r.from = "1_input_loop" /\ r.item = "event" /\ r.to = "2_unpack_loop"
                \/ r.from = "2_unpack_loop" /\ r.item \in {"bad", "scaler"}
                \/ /\ r.from = IF ReadFromFragmentTree(o) THEN "1_chain_loop"
                                                         ELSE "2_unpack_loop"
                   /\ r.item = "fragment"
                \/ r.from = "5_event_build_loop" /\ r.item = "event" /\ r.to = "6_det_build_loop"
                \/ r.from = "6_det_build_loop" /\ r.item = "detectors"
                \/ r.from = "5_event_build_loop" /\ r.item = "out_of_order"
  <2>1. CASE r \in RawQueues(o)
    BY <2>1, RawMember
  <2>2. CASE r \in FragmentQueues(o)
    BY <1>1, <2>2, FragmentMember
  <2>3. CASE r \in AnalysisQueues(o)
    BY <2>3, AnalysisMember
  <2> QED
    BY <2>1, <2>2, <2>3, QueueCases
<1>2. p.from = q.from /\ IsQueue(p) /\ IsQueue(q)
  BY <1>1
<1> QED
  BY <1>2 DEF IsQueue

LEMMA Joined ==
    ASSUME NEW o, NEW q \in QueuesOf(o)
    PROVE  q.from \in LoopsOf(o) /\ q.to \in LoopsOf(o) \cup {Nobody}
<1>1. CASE q \in RawQueues(o)
  <2>1. /\ "1_input_loop" \in LoopsOf(o)
        /\ "2_unpack_loop" \in LoopsOf(o)
        /\ WriteFragmentTree(o) => "4_frag_write_loop" \in LoopsOf(o)
    BY <1>1, RawMember DEF LoopsOf, Sources, FragmentReceivers
  <2> QED
    BY <1>1, <2>1, RawMember
<1>2. CASE q \in FragmentQueues(o)
  <2>1. /\ FragmentReceivers(o) \subseteq LoopsOf(o)
        /\ ReadFromRaw(o) => "2_unpack_loop" \in LoopsOf(o)
        /\ ReadFromFragmentTree(o) => "1_chain_loop" \in LoopsOf(o)
    BY DEF LoopsOf, Sources
  <2> QED
    BY <1>2, <2>1, FragmentMember
<1>3. CASE q \in AnalysisQueues(o)
  <2>1. GenerateAnalysisData(o)
    BY <1>3, AnalysisMember
  <2>2. /\ DetectorReceivers(o) \subseteq LoopsOf(o)
        /\ "5_event_build_loop" \in LoopsOf(o)
        /\ "6_det_build_loop" \in LoopsOf(o)
        /\ WriteAnalysisTree(o) => "8_analysis_write_loop" \in LoopsOf(o)
    BY <2>1 DEF LoopsOf, FragmentReceivers, DetectorReceivers
  <2> QED
    BY <1>3, <2>2, AnalysisMember
<1> QED
  BY <1>1, <1>2, <1>3, QueueCases

\* A loop that is made is made because there is something for it to read.
LEMMA Fed ==
    ASSUME NEW o, ~GivesUp(o), NEW l \in LoopsOf(o) \ Sources
    PROVE  \E q \in QueuesOf(o) : q.to = l
<1>1. CASE l = "2_unpack_loop"
  <2>1. ReadFromRaw(o)
    BY <1>1, Receivers DEF LoopsOf, Sources
  <2>2. Queue("1_input_loop", "2_unpack_loop", "event") \in QueuesOf(o)
    BY <2>1 DEF QueuesOf, RawQueues
  <2> QED
    BY <1>1, <2>2, Fields
<1>2. CASE l \in FragmentReceivers(o)
  <2>1. ReadFromRaw(o) \/ ReadFromFragmentTree(o)
    BY <1>2 DEF FragmentReceivers, ReadFromRaw, ReadFromFragmentTree, WritesAnything,
       WriteFragmentHistograms, WriteFragmentTree, WriteDiagnostics,
       WriteAnalysisTree, GenerateAnalysisData
  <2>2. CASE ReadFromFragmentTree(o)
    <3>1. Queue("1_chain_loop", l, "fragment") \in FragmentQueues(o)
      BY <1>2, <2>2 DEF FragmentQueues
    <3> QED
      BY <3>1, Fields DEF QueuesOf
  <2>3. CASE ReadFromRaw(o) /\ ~ReadFromFragmentTree(o)
    <3>1. Queue("2_unpack_loop", l, "fragment") \in FragmentQueues(o)
      BY <1>2, <2>3 DEF FragmentQueues
    <3> QED
      BY <3>1, Fields DEF QueuesOf
  <2> QED
    BY <2>1, <2>2, <2>3
<1>3. CASE l = "6_det_build_loop"
  <2>1. GenerateAnalysisData(o)
    BY <1>3, Receivers DEF LoopsOf, Sources
  <2>2. Queue("5_event_build_loop", "6_det_build_loop", "event") \in QueuesOf(o)
    BY <2>1 DEF QueuesOf, AnalysisQueues
  <2> QED
    BY <1>3, <2>2, Fields
<1>4. CASE l \in DetectorReceivers(o)
  <2>1. GenerateAnalysisData(o)
    BY <1>4 DEF DetectorReceivers, GivesUp, GenerateAnalysisData, ReadFromRaw,
       ReadFromFragmentTree, WritesAnything, WriteAnalysisTree
  <2>2. Queue("6_det_build_loop", l, "detectors") \in QueuesOf(o)
    BY <1>4, <2>1 DEF QueuesOf, AnalysisQueues
  <2> QED
    BY <2>2, Fields
<1> QED
  BY <1>1, <1>2, <1>3, <1>4 DEF LoopsOf, Sources

\* Whatever is asked for, unless SetupPipeline gives up, every loop but the
\* sources is fed, by one queue of each kind that connects loops of the sort,
\* and a queue nobody empties is one of the known ones.
THEOREM Wiring ==
    ASSUME NEW o, ~GivesUp(o)
    PROVE  EveryLoopFedOnce(o) /\ OrphansOnlyWhenAllowed(o)
BY Fed, Joined, Once, Orphans DEF EveryLoopFedOnce

-----------------------------------------------------------------------------
(* The shape of the stack after Goto, Call, Return and a press of Ctrl-C   *)

LEMMA GotoShape ==
    ASSUME NEW S, NEW s \in Seq(S), Len(s) > 0, NEW pc \in S
    PROVE  LET t == <<pc>> \o Tail(s) IN
           /\ t \in Seq(S)
           /\ Len(t) = Len(s)
           /\ t[1] = pc
           /\ \A i \in 2 .. Len(s) : t[i] = s[i]
OBVIOUS

LEMMA CallShape ==
    ASSUME NEW S, NEW s \in Seq(S), Len(s) > 0, NEW pc \in S, NEW return \in S
    PROVE  LET t == <<pc, return>> \o Tail(s) IN
           /\ t \in Seq(S)
           /\ Len(t) = Len(s) + 1
           /\ t[1] = pc
           /\ t[2] = return
           /\ \A i \in 2 .. Len(s) : t[i + 1] = s[i]
OBVIOUS

LEMMA ReturnShape ==
    ASSUME NEW S, NEW s \in Seq(S), Len(s) > 0
    PROVE  LET t == Tail(s) IN
           /\ t \in Seq(S)
           /\ Len(t) = Len(s) - 1
           /\ \A i \in 1 .. Len(t) : t[i] = s[i + 1]
OBVIOUS

LEMMA PressShape ==
    ASSUME NEW S, NEW s \in Seq(S), NEW pc \in S, NEW return \in S
    PROVE  LET t == <<pc, return>> \o s IN
           /\ t \in Seq(S)
           /\ Len(t) = Len(s) + 2
           /\ t[1] = pc
           /\ t[2] = return
           /\ \A i \in 1 .. Len(s) : t[i + 2] = s[i]
OBVIOUS
-----------------------------------------------------------------------------
(* The inductive invariant                                                 *)

Bottom == {"setup", "resume", "applied", "prompt"}
InLoop == {"test", "sleep", "events"}
Acting == {"action", "run", "publish"}
Procedures == Bottom \cup InLoop \cup Acting
                \cup {"terminate", "send_stop", "1_chain_loop", "1_input_loop",
                      "stop_locked", "stop_all", "notified", "notify"}
States == {"absent", "paused", "ready", "late", "iterating", "on_end", "done",
           "stuck"}

\* LoopUntilDone returns to StopAll; nothing else does.
StackSound(s) ==
    /\ s \in Seq(Procedures)
    /\ Len(s) > 0
    /\ s[Len(s)] \in Bottom
    /\ \A i \in 2 .. Len(s) : s[i] = "stop_all" => s[i - 1] \in InLoop

StackInv ==
    /\ StackSound(stack)
    /\ state \in [AllLoops -> States]
    /\ stack[1] = "stop_all" => ~AnyThreadRunning

\* One frame at most is in DelayedProcessLine_Action before its notification.
Frame(s, pc) == \E i \in 1 .. Len(s) : s[i] = pc
Acts(s) == \E pc \in Acting : Frame(s, pc)
OneActing(s) ==
    \A i, j \in 1 .. Len(s) : s[i] \in Acting /\ s[j] \in Acting => i = j

\* The line of the thread that holds the command, and whether it was run.
Line(c) == <<c, asked[c]>>
RunOnce(c) == commandOwner = c /\ (commandFinished \/ Frame(stack, "publish"))
Pending ==
    /\ commandOwner # None
    /\ caller[commandOwner] \in {"checks", "asleep"}
    /\ ~commandFinished

CommandTyped ==
    /\ caller \in [Callers -> {"idle", "asks", "posted", "checks", "asleep"}]
    /\ commandOwner \in Callers \cup {None}
    /\ timers \in {0, 1}
    /\ asked \in [Callers -> Nat]
    /\ answers \in [Callers -> Seq(Callers \X Nat)]
    /\ ran \in Seq(Callers \X Nat)

\* A line in hand has one timer or one frame that acts on it.
CommandInv ==
    /\ CommandTyped
    /\ \A c \in Callers :
          caller[c] \in {"posted", "checks", "asleep"} <=> commandOwner = c
    /\ OneActing(stack)
    /\ timers = 1 => ~Acts(stack)
    /\ Pending <=> timers = 1 \/ Acts(stack)
    /\ commandOwner # None =>
          /\ lineToProcess = Line(commandOwner)
          /\ caller[commandOwner] = "posted" => ~commandFinished
          /\ commandFinished => commandResult = Line(commandOwner)
          /\ ~commandFinished => processingNeeded
    /\ Frame(stack, "run") \/ Frame(stack, "publish") => message = lineToProcess

Ran(c, n) == \E j \in 1 .. Len(ran) : ran[j] = <<c, n>>
LogOf(c) ==
    /\ asked[c] = IF caller[c] = "idle" THEN Len(answers[c])
                                        ELSE Len(answers[c]) + 1
    /\ \A i \in 1 .. Len(answers[c]) : answers[c][i] = <<c, i>>
    /\ \A n \in Nat :
          Ran(c, n) <=> n \in 1 .. Len(answers[c]) \/ (n = asked[c] /\ RunOnce(c))
LogInv == \A c \in Callers : LogOf(c)

RanInjective == \A i, j \in 1 .. Len(ran) : ran[i] = ran[j] => i = j
-----------------------------------------------------------------------------
(* The stack *)

LEMMA StackGoto ==
    ASSUME NEW s, StackSound(s), NEW pc \in Procedures,
           s[1] \in Bottom => pc \in Bottom,
           s[1] \in InLoop => pc \in InLoop
    PROVE  LET t == <<pc>> \o Tail(s) IN StackSound(t) /\ t[1] = pc
<1> DEFINE t == <<pc>> \o Tail(s)
<1>1. /\ t \in Seq(Procedures) /\ Len(t) = Len(s) /\ t[1] = pc
      /\ \A i \in 2 .. Len(s) : t[i] = s[i]
  BY GotoShape DEF StackSound
<1> HIDE DEF t
<1>2. Len(s) \in Nat
  BY DEF StackSound
<1>3. t[Len(t)] \in Bottom
  BY <1>1, <1>2 DEF StackSound
<1>4. ASSUME NEW i \in 2 .. Len(t), t[i] = "stop_all"
      PROVE  t[i - 1] \in InLoop
  <2>1. s[i - 1] \in InLoop
    BY <1>1, <1>2, <1>4 DEF StackSound
  <2> QED
    BY <1>1, <1>2, <2>1
<1> QED
  BY <1>1, <1>2, <1>3, <1>4 DEF StackSound, t

LEMMA StackCall ==
    ASSUME NEW s, StackSound(s), NEW pc \in Procedures, NEW return \in Procedures,
           s[1] \in Bottom => return \in Bottom,
           s[1] \in InLoop => return \in InLoop,
           return = "stop_all" => pc \in InLoop
    PROVE  LET t == <<pc, return>> \o Tail(s) IN StackSound(t) /\ t[1] = pc
<1> DEFINE t == <<pc, return>> \o Tail(s)
<1>1. /\ t \in Seq(Procedures) /\ Len(t) = Len(s) + 1 /\ t[1] = pc /\ t[2] = return
      /\ \A i \in 2 .. Len(s) : t[i + 1] = s[i]
  BY CallShape DEF StackSound
<1> HIDE DEF t
<1>2. Len(s) \in Nat /\ Len(s) > 0
  BY DEF StackSound
<1>3. t[Len(t)] \in Bottom
  BY <1>1, <1>2 DEF StackSound
<1>4. ASSUME NEW i \in 2 .. Len(t), t[i] = "stop_all"
      PROVE  t[i - 1] \in InLoop
  <2>1. CASE i = 2
    BY <1>1, <1>4, <2>1
  <2>2. CASE i > 2
    <3>1. i - 1 \in 2 .. Len(s) /\ t[(i - 1) + 1] = s[i - 1]
      BY <1>1, <1>2, <2>2
    <3>2. (i - 1) + 1 = i
      OBVIOUS
    <3>3. s[i - 1] = "stop_all"
      BY <1>4, <3>1, <3>2
    <3>4. s[i - 1 - 1] \in InLoop
      BY <3>1, <3>3 DEF StackSound
    <3>5. CASE i = 3
      BY <1>1, <3>4, <3>5
    <3>6. CASE i > 3
      <4>1. i - 2 \in 2 .. Len(s) /\ t[(i - 2) + 1] = s[i - 2]
        BY <1>1, <1>2, <3>6
      <4> QED
        BY <3>4, <4>1
    <3> QED
      BY <2>2, <3>5, <3>6
  <2> QED
    BY <2>1, <2>2
<1> QED
  BY <1>1, <1>2, <1>3, <1>4 DEF StackSound, t

LEMMA StackReturn ==
    ASSUME NEW s, StackSound(s), s[1] \notin Bottom
    PROVE  LET t == Tail(s) IN
           /\ StackSound(t)
           /\ t[1] = "stop_all" => s[1] \in InLoop
<1> DEFINE t == Tail(s)
<1>1. /\ t \in Seq(Procedures) /\ Len(t) = Len(s) - 1
      /\ \A i \in 1 .. Len(t) : t[i] = s[i + 1]
  BY ReturnShape DEF StackSound
<1> HIDE DEF t
<1>2. Len(s) \in Nat /\ Len(s) > 1
  BY DEF StackSound
<1>3. t[Len(t)] \in Bottom
  BY <1>1, <1>2 DEF StackSound
<1>4. t[1] = "stop_all" => s[1] \in InLoop
  <2>1. t[1] = s[2] /\ 2 \in 2 .. Len(s) /\ 2 - 1 = 1
    BY <1>1, <1>2
  <2>2. s[2] = "stop_all" => s[2 - 1] \in InLoop
    BY <2>1 DEF StackSound
  <2> QED
    BY <2>1, <2>2
<1>5. ASSUME NEW i \in 2 .. Len(t), t[i] = "stop_all"
      PROVE  t[i - 1] \in InLoop
  <2>1. i + 1 \in 2 .. Len(s) /\ s[i + 1] = "stop_all"
    BY <1>1, <1>2, <1>5
  <2>2. s[i + 1 - 1] \in InLoop
    BY <2>1 DEF StackSound
  <2>3. t[i - 1] = s[i - 1 + 1]
    BY <1>1, <1>2
  <2> QED
    BY <2>2, <2>3
<1> QED
  BY <1>1, <1>2, <1>3, <1>4, <1>5 DEF StackSound, t

LEMMA StackPress ==
    ASSUME NEW s, StackSound(s), s[1] # "stop_all"
    PROVE  LET t == <<"terminate", "notified">> \o s IN
           StackSound(t) /\ t[1] = "terminate"
<1> DEFINE t == <<"terminate", "notified">> \o s
<1>1. /\ t \in Seq(Procedures) /\ Len(t) = Len(s) + 2
      /\ t[1] = "terminate" /\ t[2] = "notified"
      /\ \A i \in 1 .. Len(s) : t[i + 2] = s[i]
  BY PressShape DEF StackSound, Procedures
<1> HIDE DEF t
<1>2. Len(s) \in Nat /\ Len(s) > 0
  BY DEF StackSound
<1>3. t[Len(t)] \in Bottom
  BY <1>1, <1>2 DEF StackSound
<1>4. ASSUME NEW i \in 2 .. Len(t), t[i] = "stop_all"
      PROVE  t[i - 1] \in InLoop
  <2>1. i # 2
    BY <1>1, <1>4
  <2>2. i - 2 \in 1 .. Len(s) /\ t[(i - 2) + 2] = s[i - 2]
    BY <1>1, <1>2, <2>1
  <2>3. s[i - 2] = "stop_all"
    BY <1>4, <2>2
  <2>4. i - 2 \in 2 .. Len(s)
    BY <2>2, <2>3
  <2>5. s[i - 2 - 1] \in InLoop
    BY <2>3, <2>4 DEF StackSound
  <2>6. t[(i - 3) + 2] = s[i - 3]
    BY <1>1, <2>4
  <2>7. i - 2 - 1 = i - 3 /\ (i - 3) + 2 = i - 1
    BY <2>4
  <2> QED
    BY <2>5, <2>6, <2>7
<1> QED
  BY <1>1, <1>2, <1>3, <1>4 DEF StackSound, t
-----------------------------------------------------------------------------
(* StackInv is kept *)

LEMMA InitStack == Init => StackInv
BY DEF Init, StackInv, StackSound, Procedures, Bottom, InLoop, Acting, States

\* A step of the main thread that leaves the loops alone.
LEMMA MainKeepsStack ==
    ASSUME StackInv, UNCHANGED loops, StackSound(stack'),
           stack'[1] = "stop_all" => ~AnyThreadRunning
    PROVE  StackInv'
BY DEF StackInv, loops, AnyThreadRunning, Running

\* Stop returns into the next call of Stop or into LoopUntilDone.
LEMMA StackStopReturns ==
    ASSUME StackSound(stack), stack[1] \notin Bottom \cup InLoop,
           NEW l, StopReturns(l)
    PROVE  StackSound(stack') /\ stack'[1] # "stop_all"
<1> USE DEF StopReturns, Goto, Call, Procedures, Bottom, InLoop
<1>1. CASE Goto("1_input_loop")
  <2>1. StackSound(stack') /\ stack'[1] = "1_input_loop"
    BY <1>1, StackGoto
  <2> QED
    BY <2>1
<1>2. CASE Call("test", "stop_all")
  <2>1. StackSound(stack') /\ stack'[1] = "test"
    BY <1>2, StackCall
  <2> QED
    BY <2>1
<1> QED
  BY <1>1, <1>2

LEMMA MainStack ==
    ASSUME StackInv, MainStep
    PROVE  StackInv'
<1> USE DEF At, Goto, Call, Return, Procedures, Bottom, InLoop, Acting
<1>1. StackSound(stack) /\ Head(stack) = stack[1]
  BY DEF StackInv, StackSound
<1>2. CASE SetUp
  <2>1. CASE UNCHANGED <<stack, state>>
    BY <1>2, <2>1 DEF SetUp, StackInv, AnyThreadRunning, Running
  <2>2. CASE Goto("resume") /\ state' = [l \in AllLoops |->
                 IF l \in LoopsOf(options) THEN "paused" ELSE "absent"]
    <3>1. StackSound(stack') /\ stack'[1] = "resume"
      BY <1>1, <1>2, <2>2, StackGoto DEF SetUp
    <3>2. state' \in [AllLoops -> States]
      BY <2>2 DEF States
    <3> QED
      BY <3>1, <3>2 DEF StackInv
  <2> QED
    BY <1>2, <2>1, <2>2 DEF SetUp
<1>3. ASSUME NEW l \in AllLoops, ResumeLock(l)
      PROVE  StackInv'
  BY <1>3 DEF ResumeLock, StackInv, loops, AnyThreadRunning, Running
<1>4. ASSUME NEW l \in AllLoops, ResumeUnlock(l)
      PROVE  StackInv'
  <2>1. stack' = stack /\ stack[1] = "resume"
    BY <1>1, <1>4 DEF ResumeUnlock
  <2>2. state' \in [AllLoops -> States]
    BY <1>4 DEF ResumeUnlock, StackInv, States
  <2> QED
    BY <1>1, <2>1, <2>2 DEF StackInv
<1>5. CASE ResumeDone
  <2>1. StackSound(stack') /\ stack'[1] = "test"
    BY <1>1, <1>5, StackCall DEF ResumeDone
  <2> QED
    BY <1>5, <2>1, MainKeepsStack DEF ResumeDone
<1>6. CASE Applied
  <2>1. CASE Call("terminate", "prompt")
    <3>1. StackSound(stack') /\ stack'[1] = "terminate"
      BY <1>1, <1>6, <2>1, StackCall DEF Applied
    <3> QED
      BY <1>6, <3>1, MainKeepsStack DEF Applied
  <2>2. CASE Goto("prompt")
    <3>1. StackSound(stack') /\ stack'[1] = "prompt"
      BY <1>1, <1>6, <2>2, StackGoto DEF Applied
    <3> QED
      BY <1>6, <3>1, MainKeepsStack DEF Applied
  <2> QED
    BY <1>6, <2>1, <2>2 DEF Applied
<1>7. CASE Test
  <2>1. CASE AnyThreadRunning
    <3>1. StackSound(stack') /\ stack'[1] = "sleep"
      BY <1>1, <1>7, <2>1, StackGoto DEF Test
    <3> QED
      BY <1>7, <3>1, MainKeepsStack DEF Test
  <2>2. CASE ~AnyThreadRunning
    <3>1. StackSound(stack')
      BY <1>1, <1>7, <2>2, StackReturn DEF Test
    <3> QED
      BY <1>7, <2>2, <3>1, MainKeepsStack DEF Test
  <2> QED
    BY <2>1, <2>2
<1>8. CASE Sleep
  <2>1. CASE Goto("events")
    <3>1. StackSound(stack') /\ stack'[1] = "events"
      BY <1>1, <1>8, <2>1, StackGoto DEF Sleep
    <3> QED
      BY <1>8, <3>1, MainKeepsStack DEF Sleep
  <2>2. CASE Call("terminate", "events")
    <3>1. StackSound(stack') /\ stack'[1] = "terminate"
      BY <1>1, <1>8, <2>2, StackCall DEF Sleep
    <3> QED
      BY <1>8, <3>1, MainKeepsStack DEF Sleep
  <2> QED
    BY <1>8, <2>1, <2>2 DEF Sleep
<1>9. CASE EventsProcessed
  <2>1. StackSound(stack') /\ stack'[1] = "test"
    BY <1>1, <1>9, StackGoto DEF EventsProcessed
  <2> QED
    BY <1>9, <2>1, MainKeepsStack DEF EventsProcessed
<1>10. CASE Terminate
  <2>1. CASE fAllowedToTerminate
    <3>1. StackSound(stack') /\ stack'[1] = "send_stop"
      BY <1>1, <1>10, <2>1, StackGoto DEF Terminate
    <3> QED
      BY <1>10, <3>1, MainKeepsStack DEF Terminate
  <2>2. CASE ~fAllowedToTerminate
    <3>1. StackSound(stack') /\ stack'[1] # "stop_all"
      BY <1>1, <1>10, <2>2, StackReturn DEF Terminate
    <3> QED
      BY <1>10, <3>1, MainKeepsStack DEF Terminate
  <2> QED
    BY <2>1, <2>2
<1>11. CASE SendStop
  <2>1. StackSound(stack') /\ stack'[1] = "1_chain_loop"
    BY <1>1, <1>11, StackGoto DEF SendStop
  <2> QED
    BY <1>11, <2>1, MainKeepsStack DEF SendStop
<1>19. ASSUME NEW l \in Sources, NoSuchSource(l)
       PROVE  StackInv'
  <2>1. stack[1] \notin Bottom \cup InLoop
    BY <1>1, <1>19 DEF NoSuchSource, Sources
  <2>2. StackSound(stack') /\ stack'[1] # "stop_all"
    BY <1>1, <1>19, <2>1, StackStopReturns DEF NoSuchSource
  <2> QED
    BY <1>19, <2>2, MainKeepsStack DEF NoSuchSource
<1>20. ASSUME NEW l \in Sources, Stop(l)
       PROVE  StackInv'
  <2>1. StackSound(stack') /\ stack'[1] = "stop_locked"
    <3>1. stack[1] \notin Bottom \cup InLoop
      BY <1>1, <1>20 DEF Stop, Sources
    <3> QED
      BY <1>1, <1>20, <3>1, StackGoto DEF Stop
  <2>2. state' \in [AllLoops -> States]
    BY <1>20 DEF Stop, StackInv, States
  <2> QED
    BY <2>1, <2>2 DEF StackInv
<1>21. CASE StopUnlock
  <2>1. stack[1] \notin Bottom \cup InLoop
    BY <1>1, <1>21 DEF StopUnlock
  <2>2. StackSound(stack') /\ stack'[1] # "stop_all"
    BY <1>1, <1>21, <2>1, StackStopReturns DEF StopUnlock
  <2> QED
    BY <1>21, <2>2, MainKeepsStack DEF StopUnlock
<1>12. CASE StopAll
  BY <1>1, <1>12, MainKeepsStack DEF StopAll, StackInv
<1>13. CASE HandlerReturns
  <2>1. StackSound(stack') /\ stack'[1] # "stop_all"
    BY <1>1, <1>13, StackReturn DEF HandlerReturns
  <2> QED
    BY <1>13, <2>1, MainKeepsStack DEF HandlerReturns
<1>14. CASE TimerFires
  <2>1. StackSound(stack') /\ stack'[1] = "action"
    BY <1>1, <1>14, StackCall DEF TimerFires
  <2> QED
    BY <1>14, <2>1, MainKeepsStack DEF TimerFires
<1>15. CASE TakeLine
  <2>1. CASE processingNeeded
    <3>1. StackSound(stack') /\ stack'[1] = "run"
      BY <1>1, <1>15, <2>1, StackGoto DEF TakeLine
    <3> QED
      BY <1>15, <3>1, MainKeepsStack DEF TakeLine
  <2>2. CASE ~processingNeeded
    <3>1. StackSound(stack') /\ stack'[1] # "stop_all"
      BY <1>1, <1>15, <2>2, StackReturn DEF TakeLine
    <3> QED
      BY <1>15, <3>1, MainKeepsStack DEF TakeLine
  <2> QED
    BY <2>1, <2>2
<1>16. CASE RunLine
  <2>1. StackSound(stack') /\ stack'[1] = "publish"
    BY <1>1, <1>16, StackGoto DEF RunLine
  <2> QED
    BY <1>16, <2>1, MainKeepsStack DEF RunLine
<1>17. CASE PublishResult
  <2>1. StackSound(stack') /\ stack'[1] = "notify"
    BY <1>1, <1>17, StackGoto DEF PublishResult
  <2> QED
    BY <1>17, <2>1, MainKeepsStack DEF PublishResult
<1>18. CASE NotifyResult
  <2>1. StackSound(stack') /\ stack'[1] # "stop_all"
    BY <1>1, <1>18, StackReturn DEF NotifyResult
  <2> QED
    BY <1>18, <2>1, MainKeepsStack DEF NotifyResult
<1> QED
  BY <1>2, <1>3, <1>4, <1>5, <1>6, <1>7, <1>8, <1>9, <1>10, <1>11, <1>12,
     <1>13, <1>14, <1>15, <1>16, <1>17, <1>18, <1>19, <1>20, <1>21 DEF MainStep

LEMMA OtherStack ==
    ASSUME StackInv, [Quit \/ Notify
                        \/ (\E l \in AllLoops : LoopStep(l) \/ Push(l, TRUE))
                        \/ (\E c \in Callers : CallerStep(c) \/ WakeUp(c))]_vars
    PROVE  StackInv'
<1>1. StackSound(stack) /\ Head(stack) = stack[1]
  BY DEF StackInv, StackSound
<1>2. CASE Quit
  <2>1. StackSound(stack') /\ stack'[1] = "terminate"
    BY <1>1, <1>2, StackCall
    DEF Quit, At, Call, Procedures, Bottom, InLoop
  <2> QED
    BY <1>2, <2>1, MainKeepsStack DEF Quit
<1>3. CASE Notify
  <2>1. CASE UNCHANGED <<stack, loops>>
    BY <2>1 DEF StackInv, loops, AnyThreadRunning, Running
  <2>2. CASE AnyThreadRunning /\ FirstPress
    <3>1. StackSound(stack') /\ stack'[1] = "terminate"
      BY <1>1, <2>2, StackPress DEF FirstPress, StackInv
    <3> QED
      BY <2>2, <3>1, MainKeepsStack DEF FirstPress
  <2>3. CASE AnyThreadRunning /\ SecondPress
    <3>1. stack' = stack /\ stack[1] # "stop_all"
      BY <2>3 DEF SecondPress, StackInv
    <3>2. state' \in [AllLoops -> States]
      BY <2>3 DEF SecondPress, StackInv, States
    <3> QED
      BY <1>1, <3>1, <3>2 DEF StackInv
  <2> QED
    BY <1>3, <2>1, <2>2, <2>3 DEF Notify, Exit
<1>4. ASSUME NEW l \in AllLoops, LoopStep(l) \/ Push(l, TRUE)
      PROVE  StackInv'
  <2>1. /\ stack' = stack
        /\ \A k \in AllLoops : Running(k)' => Running(k)
        /\ state' \in [AllLoops -> States]
    <3> USE DEF Others, MayIterate, Iterates, Running, StackInv, States
    <3>1. CASE ReadEvent(l) \/ SleepAtEnd(l)
      BY <3>1 DEF ReadEvent, SleepAtEnd
    <3>2. CASE SourceEnds(l)
      BY <3>2 DEF SourceEnds
    <3>3. CASE LoopEnds(l)
      BY <3>3 DEF LoopEnds
    <3>4. CASE OnEnd(l)
      BY <3>4 DEF OnEnd
    <3>5. ASSUME NEW q \in DOMAIN queued, TakeItem(l, q)
          PROVE  /\ stack' = stack
                 /\ \A k \in AllLoops : Running(k)' => Running(k)
                 /\ state' \in [AllLoops -> States]
      BY <3>5 DEF TakeItem
    <3>6. CASE Push(l, TRUE) \/ Push(l, FALSE)
      BY <3>6 DEF Push
    <3>7. CASE IterationEnds(l)
      BY <3>7 DEF IterationEnds
    <3> QED
      BY <1>4, <3>1, <3>2, <3>3, <3>4, <3>5, <3>6, <3>7 DEF LoopStep
  <2> QED
    BY <2>1 DEF StackInv, AnyThreadRunning
<1>5. ASSUME NEW c \in Callers, CallerStep(c) \/ WakeUp(c)
      PROVE  StackInv'
  <2>1. UNCHANGED <<stack, loops>>
    BY <1>5 DEF CallerStep, AskNews, PostLine, StartTimer, WaitForResult,
                TakeResult, WakeUp, session
  <2> QED
    BY <2>1 DEF StackInv, loops, AnyThreadRunning, Running
<1>6. CASE UNCHANGED vars
  BY <1>6 DEF vars, StackInv, loops, AnyThreadRunning, Running
<1> QED
  BY <1>2, <1>3, <1>4, <1>5, <1>6

LEMMA NextStack == StackInv /\ [Next]_vars => StackInv'
BY MainStack, OtherStack DEF Next

\* Nothing returns into StopAll or interrupts it while a loop runs, for any
\* presses of Ctrl-C and any nesting of handlers, event loops and commands.
THEOREM CleanupOnce == Spec => CleanupNotReentered
<1>1. StackInv /\ [Next]_vars => [At("stop_all") => stack' = stack]_vars
  <2> SUFFICES ASSUME StackInv, Next, At("stop_all")
               PROVE  stack' = stack
    OBVIOUS
  <2>1. Head(stack) = "stop_all" /\ ~AnyThreadRunning
    BY DEF StackInv, StackSound, At
  <2>2. CASE MainStep
    BY <2>1, <2>2 DEF MainStep, At, SetUp, ResumeLock, ResumeUnlock, ResumeDone,
       Applied, Test, Sleep, EventsProcessed, Terminate, SendStop, NoSuchSource,
       Stop, StopUnlock, Sources, StopAll, HandlerReturns, TimerFires, TakeLine, RunLine, PublishResult, NotifyResult
  <2>3. CASE Quit
    BY <2>1, <2>3 DEF Quit, At
  <2>4. CASE Notify
    BY <2>1, <2>4 DEF Notify, Exit
  <2>5. ASSUME NEW l \in AllLoops, LoopStep(l) \/ Push(l, TRUE)
        PROVE  stack' = stack
    BY <2>5 DEF LoopStep, ReadEvent, SleepAtEnd, SourceEnds, TakeItem, Push,
                IterationEnds, LoopEnds, OnEnd, Others
  <2>6. ASSUME NEW c \in Callers, CallerStep(c) \/ WakeUp(c)
        PROVE  stack' = stack
    BY <2>6 DEF CallerStep, AskNews, PostLine, StartTimer, WaitForResult,
                TakeResult, WakeUp, session
  <2> QED
    BY <2>2, <2>3, <2>4, <2>5, <2>6 DEF Next
<1> QED
  BY <1>1, InitStack, NextStack, PTL DEF Spec, CleanupNotReentered
-----------------------------------------------------------------------------
(* The frames that act on a line *)

Quiet(s, t) ==
    /\ \A pc \in Acting : Frame(t, pc) <=> Frame(s, pc)
    /\ OneActing(s) => OneActing(t)

LEMMA QuietGoto ==
    ASSUME NEW s, StackSound(s), NEW pc \in Procedures \ Acting, s[1] \notin Acting
    PROVE  Quiet(s, <<pc>> \o Tail(s))
<1> DEFINE t == <<pc>> \o Tail(s)
<1>1. /\ Len(t) = Len(s) /\ t[1] = pc
      /\ \A i \in 2 .. Len(s) : t[i] = s[i]
  BY GotoShape DEF StackSound
<1> HIDE DEF t
<1>2. Len(s) \in Nat /\ Len(s) > 0
  BY DEF StackSound
<1>3. \A i \in 1 .. Len(s) : \A x \in Acting : t[i] = x <=> s[i] = x
  BY <1>1, <1>2
<1>4. \A pc_1 \in Acting : Frame(t, pc_1) <=> Frame(s, pc_1)
  BY <1>1, <1>3 DEF Frame
<1>5. OneActing(s) => OneActing(t)
  BY <1>1, <1>3 DEF OneActing
<1> QED
  BY <1>4, <1>5 DEF Quiet, t

LEMMA QuietCall ==
    ASSUME NEW s, StackSound(s), s[1] \notin Acting,
           NEW pc \in Procedures \ Acting, NEW return \in Procedures \ Acting
    PROVE  Quiet(s, <<pc, return>> \o Tail(s))
<1> DEFINE t == <<pc, return>> \o Tail(s)
<1>1. /\ Len(t) = Len(s) + 1 /\ t[1] = pc /\ t[2] = return
      /\ \A i \in 2 .. Len(s) : t[i + 1] = s[i]
  BY CallShape DEF StackSound
<1> HIDE DEF t
<1>2. Len(s) \in Nat /\ Len(s) > 0
  BY DEF StackSound
<1>3. \A i \in 1 .. Len(t) : t[i] \in Acting => i - 1 \in 2 .. Len(s) /\ s[i - 1] = t[i]
  <2> SUFFICES ASSUME NEW i \in 1 .. Len(t), t[i] \in Acting
               PROVE  i - 1 \in 2 .. Len(s) /\ s[i - 1] = t[i]
    OBVIOUS
  <2>1. i - 1 \in 2 .. Len(s) /\ (i - 1) + 1 = i
    BY <1>1, <1>2
  <2> QED
    BY <1>1, <2>1
<1>4. \A i \in 1 .. Len(s) : s[i] \in Acting => i + 1 \in 1 .. Len(t) /\ t[i + 1] = s[i]
  BY <1>1, <1>2
<1>5. \A x \in Acting : Frame(t, x) <=> Frame(s, x)
  <2> SUFFICES ASSUME NEW x \in Acting
               PROVE  Frame(t, x) <=> Frame(s, x)
    OBVIOUS
  <2>1. Frame(t, x) => Frame(s, x)
    BY <1>2, <1>3 DEF Frame
  <2>2. Frame(s, x) => Frame(t, x)
    BY <1>4 DEF Frame
  <2> QED
    BY <2>1, <2>2
<1>6. ASSUME OneActing(s)
      PROVE  OneActing(t)
  <2> SUFFICES ASSUME NEW i \in 1 .. Len(t), NEW j \in 1 .. Len(t),
                      t[i] \in Acting, t[j] \in Acting
               PROVE  i = j
    BY DEF OneActing
  <2>1. i - 1 = j - 1
    BY <1>2, <1>3, <1>6 DEF OneActing
  <2> QED
    BY <1>1, <1>2, <2>1
<1> QED
  BY <1>5, <1>6 DEF Quiet, t

LEMMA QuietReturn ==
    ASSUME NEW s, StackSound(s), s[1] \notin Acting
    PROVE  Quiet(s, Tail(s))
<1> DEFINE t == Tail(s)
<1>1. /\ Len(t) = Len(s) - 1
      /\ \A i \in 1 .. Len(t) : t[i] = s[i + 1]
  BY ReturnShape DEF StackSound
<1> HIDE DEF t
<1>2. Len(s) \in Nat /\ Len(s) > 0
  BY DEF StackSound
<1>3. \A i \in 1 .. Len(t) : i + 1 \in 1 .. Len(s) /\ t[i] = s[i + 1]
  BY <1>1, <1>2
<1>4. \A i \in 1 .. Len(s) : s[i] \in Acting => i - 1 \in 1 .. Len(t) /\ t[i - 1] = s[i]
  <2> SUFFICES ASSUME NEW i \in 1 .. Len(s), s[i] \in Acting
               PROVE  i - 1 \in 1 .. Len(t) /\ t[i - 1] = s[i]
    OBVIOUS
  <2>1. i - 1 \in 1 .. Len(t) /\ (i - 1) + 1 = i
    BY <1>1, <1>2
  <2> QED
    BY <1>1, <2>1
<1>5. \A x \in Acting : Frame(t, x) <=> Frame(s, x)
  <2> SUFFICES ASSUME NEW x \in Acting
               PROVE  Frame(t, x) <=> Frame(s, x)
    OBVIOUS
  <2>1. Frame(t, x) => Frame(s, x)
    BY <1>3 DEF Frame
  <2>2. Frame(s, x) => Frame(t, x)
    BY <1>4 DEF Frame
  <2> QED
    BY <2>1, <2>2
<1>6. ASSUME OneActing(s)
      PROVE  OneActing(t)
  <2> SUFFICES ASSUME NEW i \in 1 .. Len(t), NEW j \in 1 .. Len(t),
                      t[i] \in Acting, t[j] \in Acting
               PROVE  i = j
    BY DEF OneActing
  <2>1. i + 1 = j + 1
    BY <1>3, <1>6 DEF OneActing
  <2> QED
    BY <1>1, <1>2, <2>1
<1> QED
  BY <1>5, <1>6 DEF Quiet, t

LEMMA QuietPress ==
    ASSUME NEW s, StackSound(s)
    PROVE  Quiet(s, <<"terminate", "notified">> \o s)
<1> DEFINE t == <<"terminate", "notified">> \o s
<1>1. /\ Len(t) = Len(s) + 2 /\ t[1] = "terminate" /\ t[2] = "notified"
      /\ \A i \in 1 .. Len(s) : t[i + 2] = s[i]
  BY PressShape DEF StackSound, Procedures
<1> HIDE DEF t
<1>2. Len(s) \in Nat /\ Len(s) > 0
  BY DEF StackSound
<1>3. \A i \in 1 .. Len(t) : t[i] \in Acting => i - 2 \in 1 .. Len(s) /\ s[i - 2] = t[i]
  <2> SUFFICES ASSUME NEW i \in 1 .. Len(t), t[i] \in Acting
               PROVE  i - 2 \in 1 .. Len(s) /\ s[i - 2] = t[i]
    OBVIOUS
  <2>1. i # 1 /\ i # 2
    BY <1>1 DEF Acting
  <2>2. i - 2 \in 1 .. Len(s) /\ (i - 2) + 2 = i
    BY <1>1, <1>2, <2>1
  <2> QED
    BY <1>1, <2>2
<1>4. \A i \in 1 .. Len(s) : i + 2 \in 1 .. Len(t) /\ t[i + 2] = s[i]
  BY <1>1, <1>2
<1>5. \A x \in Acting : Frame(t, x) <=> Frame(s, x)
  <2> SUFFICES ASSUME NEW x \in Acting
               PROVE  Frame(t, x) <=> Frame(s, x)
    OBVIOUS
  <2>1. Frame(t, x) => Frame(s, x)
    BY <1>3 DEF Frame
  <2>2. Frame(s, x) => Frame(t, x)
    BY <1>4 DEF Frame
  <2> QED
    BY <2>1, <2>2
<1>6. ASSUME OneActing(s)
      PROVE  OneActing(t)
  <2> SUFFICES ASSUME NEW i \in 1 .. Len(t), NEW j \in 1 .. Len(t),
                      t[i] \in Acting, t[j] \in Acting
               PROVE  i = j
    BY DEF OneActing
  <2>1. i - 2 = j - 2
    BY <1>3, <1>6 DEF OneActing
  <2> QED
    BY <1>1, <1>2, <2>1
<1> QED
  BY <1>5, <1>6 DEF Quiet, t

\* A timer puts the only frame that acts on the stack.
LEMMA ActingCall ==
    ASSUME NEW s, StackSound(s), s[1] \notin Acting, ~Acts(s)
    PROVE  LET t == <<"action", s[1]>> \o Tail(s) IN
           /\ OneActing(t)
           /\ \A x \in Acting : Frame(t, x) <=> x = "action"
<1> DEFINE t == <<"action", s[1]>> \o Tail(s)
<1>1. /\ Len(t) = Len(s) + 1 /\ t[1] = "action" /\ t[2] = s[1]
      /\ \A i \in 2 .. Len(s) : t[i + 1] = s[i]
  BY CallShape DEF StackSound, Procedures, Acting
<1> HIDE DEF t
<1>2. Len(s) \in Nat /\ Len(s) > 0
  BY DEF StackSound
<1>3. \A i \in 1 .. Len(s) : s[i] \notin Acting
  BY DEF Acts, Frame
<1>4. \A i \in 2 .. Len(t) : t[i] \notin Acting
  <2> SUFFICES ASSUME NEW i \in 2 .. Len(t)
               PROVE  t[i] \notin Acting
    OBVIOUS
  <2>1. CASE i = 2
    BY <1>1, <2>1
  <2>2. CASE i > 2
    <3>1. i - 1 \in 2 .. Len(s) /\ (i - 1) + 1 = i
      BY <1>1, <1>2, <2>2
    <3>2. t[i] = s[i - 1] /\ i - 1 \in 1 .. Len(s)
      BY <1>1, <3>1
    <3> QED
      BY <1>3, <3>2
  <2> QED
    BY <2>1, <2>2
<1>5. OneActing(t)
  BY <1>1, <1>2, <1>4 DEF OneActing
<1>6. \A x \in Acting : Frame(t, x) <=> x = "action"
  BY <1>1, <1>2, <1>4 DEF Frame
<1> QED
  BY <1>5, <1>6 DEF t

\* It goes on, or its line is done.
LEMMA ActingGoto ==
    ASSUME NEW s, StackSound(s), s[1] \in Acting, OneActing(s), NEW pc \in Procedures
    PROVE  LET t == <<pc>> \o Tail(s) IN
           /\ OneActing(t)
           /\ \A x \in Acting : Frame(t, x) <=> x = pc
           /\ \A x \in Acting : Frame(s, x) <=> x = s[1]
<1> DEFINE t == <<pc>> \o Tail(s)
<1>1. /\ Len(t) = Len(s) /\ t[1] = pc
      /\ \A i \in 2 .. Len(s) : t[i] = s[i]
  BY GotoShape DEF StackSound
<1> HIDE DEF t
<1>2. Len(s) \in Nat /\ Len(s) > 0
  BY DEF StackSound
<1>3. \A i \in 2 .. Len(s) : s[i] \notin Acting
  BY <1>2 DEF OneActing
<1>4. \A i \in 2 .. Len(t) : t[i] \notin Acting
  BY <1>1, <1>3
<1>5. OneActing(t)
  BY <1>1, <1>2, <1>4 DEF OneActing
<1>6. \A x \in Acting : Frame(t, x) <=> x = pc
  BY <1>1, <1>2, <1>4 DEF Frame
<1>7. \A x \in Acting : Frame(s, x) <=> x = s[1]
  BY <1>2, <1>3 DEF Frame
<1> QED
  BY <1>5, <1>6, <1>7 DEF t
-----------------------------------------------------------------------------
(* The line in hand *)

CommandLog == CommandInv /\ LogInv /\ RanInjective

LEMMA InitCommand == Init => CommandLog
<1> SUFFICES ASSUME Init
             PROVE  CommandLog
  OBVIOUS
<1>1. ~Acts(stack) /\ OneActing(stack) /\ ~Frame(stack, "run")
        /\ ~Frame(stack, "publish")
  BY DEF Init, Acts, OneActing, Frame, Acting
<1>2. CommandTyped
  BY SessionAssumption DEF Init, CommandTyped
<1>3. CommandInv
  BY <1>1, <1>2, SessionAssumption DEF Init, CommandInv, Pending
<1>4. LogInv
  BY SessionAssumption DEF Init, LogInv, LogOf, Ran, RunOnce
<1>5. RanInjective
  BY DEF Init, RanInjective
<1> QED
  BY <1>3, <1>4, <1>5 DEF CommandLog

\* Steps that do not touch the line.
LEMMA QuietStep ==
    ASSUME CommandLog, UNCHANGED <<caller, command, log>>, Quiet(stack, stack')
    PROVE  CommandLog'
<1>1. UNCHANGED <<caller, commandOwner, lineToProcess, processingNeeded,
                  commandFinished, commandResult, message, timers, ran, asked,
                  answers>>
  BY DEF command, log
<1>2. /\ OneActing(stack) => OneActing(stack')
      /\ Acts(stack') <=> Acts(stack)
      /\ Frame(stack', "run") <=> Frame(stack, "run")
      /\ Frame(stack', "publish") <=> Frame(stack, "publish")
  BY DEF Quiet, Acts, Acting
<1>3. CommandInv'
  BY <1>1, <1>2 DEF CommandLog, CommandInv, CommandTyped, Pending, Line
<1>4. ASSUME NEW c \in Callers
      PROVE  LogOf(c)'
  <2>1. RunOnce(c)' <=> RunOnce(c)
    BY <1>1, <1>2 DEF RunOnce
  <2>2. LogOf(c)
    BY DEF CommandLog, LogInv
  <2> QED
    BY <1>1, <2>1, <2>2 DEF LogOf, Ran
<1>5. RanInjective'
  BY <1>1 DEF CommandLog, RanInjective
<1> QED
  BY <1>3, <1>4, <1>5 DEF CommandLog, LogInv

\* A thread that waits for its answer falls asleep or wakes up.
LEMMA WaiterMoves ==
    ASSUME CommandLog, UNCHANGED <<command, log>>, Quiet(stack, stack'),
           NEW c \in Callers, NEW to \in {"checks", "asleep"},
           caller[c] \in {"checks", "asleep"},
           caller' = [caller EXCEPT ![c] = to]
    PROVE  CommandLog'
<1>1. UNCHANGED <<commandOwner, lineToProcess, processingNeeded,
                  commandFinished, commandResult, message, timers, ran, asked,
                  answers>>
  BY DEF command, log
<1>2. /\ OneActing(stack) => OneActing(stack')
      /\ Acts(stack') <=> Acts(stack)
      /\ Frame(stack', "run") <=> Frame(stack, "run")
      /\ Frame(stack', "publish") <=> Frame(stack, "publish")
  BY DEF Quiet, Acts, Acting
<1>3. CommandTyped'
  BY <1>1 DEF CommandLog, CommandInv, CommandTyped
<1>4. /\ caller'[c] = to
      /\ \A d \in Callers : d # c => caller'[d] = caller[d]
      /\ commandOwner = c
  BY DEF CommandLog, CommandInv, CommandTyped
<1>5. Pending' <=> Pending
  BY <1>1, <1>4 DEF Pending
<1>6. CommandInv'
  BY <1>1, <1>2, <1>3, <1>4, <1>5 DEF CommandLog, CommandInv, Line
<1>7. ASSUME NEW d \in Callers
      PROVE  LogOf(d)'
  <2>1. RunOnce(d)' <=> RunOnce(d)
    BY <1>1, <1>2 DEF RunOnce
  <2>2. caller'[d] = "idle" <=> caller[d] = "idle"
    BY <1>4
  <2>3. LogOf(d)
    BY DEF CommandLog, LogInv
  <2> QED
    BY <1>1, <2>1, <2>2, <2>3 DEF LogOf, Ran
<1>8. RanInjective'
  BY <1>1 DEF CommandLog, RanInjective
<1> QED
  BY <1>6, <1>7, <1>8 DEF CommandLog, LogInv

\* A thread wants to hand over its next line.
LEMMA ThreadAsks ==
    ASSUME CommandLog, UNCHANGED <<stack, command, ran, answers>>,
           NEW c \in Callers, caller[c] = "idle",
           caller' = [caller EXCEPT ![c] = "asks"],
           asked' = [asked EXCEPT ![c] = @ + 1]
    PROVE  CommandLog'
<1>1. UNCHANGED <<commandOwner, lineToProcess, processingNeeded,
                  commandFinished, commandResult, message, timers>>
  BY DEF command
<1>2. CommandTyped'
  BY <1>1 DEF CommandLog, CommandInv, CommandTyped
<1>3. /\ caller'[c] = "asks" /\ asked'[c] = asked[c] + 1
      /\ \A d \in Callers : d # c => caller'[d] = caller[d] /\ asked'[d] = asked[d]
      /\ commandOwner # c
  BY DEF CommandLog, CommandInv, CommandTyped
<1>4. Pending' <=> Pending
  <2>1. CASE commandOwner = None
    BY <1>1, <2>1 DEF Pending
  <2>2. CASE commandOwner # None
    <3>1. caller'[commandOwner] = caller[commandOwner]
      BY <1>3, <2>2 DEF CommandLog, CommandInv, CommandTyped
    <3> QED
      BY <1>1, <3>1 DEF Pending
  <2> QED
    BY <2>1, <2>2
<1>5. commandOwner # None => /\ Line(commandOwner)' = Line(commandOwner)
                             /\ caller'[commandOwner] = caller[commandOwner]
  BY <1>1, <1>3 DEF Line, CommandLog, CommandInv, CommandTyped
<1>6. CommandInv'
  BY <1>1, <1>2, <1>3, <1>4, <1>5 DEF CommandLog, CommandInv
<1>7. ASSUME NEW d \in Callers
      PROVE  LogOf(d)'
  <2>1. RunOnce(d)' <=> RunOnce(d)
    BY <1>1 DEF RunOnce
  <2>2. LogOf(d)
    BY DEF CommandLog, LogInv
  <2>3. CASE d = c
    BY <1>3, <2>1, <2>2, <2>3 DEF LogOf, Ran, RunOnce
  <2>4. CASE d # c
    BY <1>3, <2>1, <2>2, <2>4 DEF LogOf, Ran
  <2> QED
    BY <2>3, <2>4
<1>8. RanInjective'
  BY DEF CommandLog, RanInjective
<1> QED
  BY <1>6, <1>7, <1>8 DEF CommandLog, LogInv
\* The frame that acts changes; nobody is answered yet.
LEMMA LineActs ==
    ASSUME StackInv, CommandLog, TimerFires \/ TakeLine \/ RunLine \/ PublishResult
    PROVE  CommandLog'
<1> USE DEF At, Goto, Call
<1>1. /\ StackSound(stack) /\ Head(stack) = stack[1]
      /\ stack[1] \in Procedures
  BY DEF StackInv, StackSound
<1>2. CommandInv /\ LogInv /\ RanInjective
  BY DEF CommandLog
<1>3. CASE TimerFires
  <2>1. /\ UNCHANGED <<caller, commandOwner, lineToProcess, processingNeeded,
                       commandFinished, commandResult, message, log>>
        /\ timers = 1 /\ timers' = 0
        /\ stack' = <<"action", stack[1]>> \o Tail(stack)
        /\ stack[1] \notin Acting
    BY <1>1, <1>2, <1>3 DEF TimerFires, CommandInv, CommandTyped, Acting
  <2>2. ~Acts(stack)
    BY <1>2, <2>1 DEF CommandInv
  <2>3. /\ OneActing(stack')
        /\ \A x \in Acting : Frame(stack', x) <=> x = "action"
    BY <1>1, <2>1, <2>2, ActingCall
  <2>4. /\ Acts(stack') /\ ~Frame(stack', "run") /\ ~Frame(stack', "publish")
        /\ ~Frame(stack, "run") /\ ~Frame(stack, "publish")
    BY <2>2, <2>3 DEF Acts, Acting
  <2>5. CommandInv'
    BY <1>2, <2>1, <2>3, <2>4 DEF CommandInv, CommandTyped, Pending, Line, log
  <2>6. ASSUME NEW c \in Callers
        PROVE  LogOf(c)'
    <3>1. LogOf(c) /\ (RunOnce(c)' <=> RunOnce(c))
      BY <1>2, <2>1, <2>4 DEF LogInv, RunOnce
    <3> QED
      BY <2>1, <3>1 DEF LogOf, Ran, log
  <2>7. RanInjective'
    BY <1>2, <2>1 DEF RanInjective, log
  <2> QED
    BY <2>5, <2>6, <2>7 DEF CommandLog, LogInv
<1>4. CASE TakeLine
  <2>1. stack[1] = "action" /\ Acts(stack)
    BY <1>1, <1>4 DEF TakeLine, Acts, Acting, Frame, StackSound
  <2>2. Pending /\ processingNeeded
    BY <1>2, <2>1 DEF CommandInv, Pending
  <2>3. /\ UNCHANGED <<caller, commandOwner, lineToProcess, processingNeeded,
                       commandFinished, commandResult, timers, log>>
        /\ message' = lineToProcess
        /\ stack' = <<"run">> \o Tail(stack)
    BY <1>4, <2>2 DEF TakeLine
  <2>4. /\ OneActing(stack')
        /\ \A x \in Acting : Frame(stack', x) <=> x = "run"
        /\ \A x \in Acting : Frame(stack, x) <=> x = "action"
    BY <1>1, <1>2, <2>1, <2>3, ActingGoto DEF Acting, Procedures, CommandInv
  <2>5. Acts(stack') /\ ~Frame(stack', "publish") /\ ~Frame(stack, "publish")
    BY <2>4 DEF Acts, Acting
  <2>6. CommandInv'
    BY <1>2, <2>1, <2>3, <2>4, <2>5 DEF CommandInv, CommandTyped, Pending, Line, log
  <2>7. ASSUME NEW c \in Callers
        PROVE  LogOf(c)'
    <3>1. LogOf(c) /\ (RunOnce(c)' <=> RunOnce(c))
      BY <1>2, <2>3, <2>5 DEF LogInv, RunOnce
    <3> QED
      BY <2>3, <3>1 DEF LogOf, Ran, log
  <2>8. RanInjective'
    BY <1>2, <2>3 DEF RanInjective, log
  <2> QED
    BY <2>6, <2>7, <2>8 DEF CommandLog, LogInv
<1>5. CASE RunLine
  <2>1. stack[1] = "run" /\ Acts(stack) /\ Frame(stack, "run")
    BY <1>1, <1>5 DEF RunLine, Acts, Acting, Frame, StackSound
  <2>2. Pending /\ timers = 0
    BY <1>2, <2>1 DEF CommandInv, CommandTyped
  <2>3. /\ UNCHANGED <<caller, commandOwner, lineToProcess, processingNeeded,
                       commandFinished, commandResult, timers, message, asked,
                       answers>>
        /\ ran' = Append(ran, message)
        /\ stack' = <<"publish">> \o Tail(stack)
    BY <1>5 DEF RunLine, command
  <2>4. /\ OneActing(stack')
        /\ \A x \in Acting : Frame(stack', x) <=> x = "publish"
        /\ \A x \in Acting : Frame(stack, x) <=> x = "run"
    BY <1>1, <1>2, <2>1, <2>3, ActingGoto DEF Acting, Procedures, CommandInv
  <2>5. Acts(stack') /\ Frame(stack', "publish") /\ ~Frame(stack, "publish")
    BY <2>4 DEF Acts, Acting
  <2>6. /\ commandOwner \in Callers
        /\ message = <<commandOwner, asked[commandOwner]>>
        /\ asked[commandOwner] = Len(answers[commandOwner]) + 1
        /\ answers[commandOwner] \in Seq(Callers \X Nat)
        /\ ~RunOnce(commandOwner)
    <3>1. commandOwner \in Callers /\ ~commandFinished
            /\ caller[commandOwner] # "idle"
      BY <1>2, <2>2 DEF CommandInv, CommandTyped, Pending
    <3>2. message = <<commandOwner, asked[commandOwner]>>
      BY <1>2, <2>1, <2>2 DEF CommandInv, Pending, Line
    <3>3. asked[commandOwner] = Len(answers[commandOwner]) + 1
      BY <1>2, <3>1 DEF LogInv, LogOf
    <3> QED
      BY <1>2, <2>5, <3>1, <3>2, <3>3 DEF RunOnce, CommandInv, CommandTyped
  <2>7. ran \in Seq(Callers \X Nat) /\ asked \in [Callers -> Nat]
    BY <1>2 DEF CommandInv, CommandTyped
  <2>8. message \in Callers \X Nat /\ ran' \in Seq(Callers \X Nat)
    BY <2>3, <2>6, <2>7
  <2>9. /\ Len(ran') = Len(ran) + 1 /\ ran'[Len(ran) + 1] = message
        /\ \A j \in 1 .. Len(ran) : ran'[j] = ran[j]
        /\ Len(ran) \in Nat
    BY <2>3, <2>7, <2>8
  <2>10. CommandInv'
    <3>1. CommandTyped'
      BY <1>2, <2>3, <2>8 DEF CommandInv, CommandTyped
    <3> QED
      BY <1>2, <2>1, <2>3, <2>4, <2>5, <3>1 DEF CommandInv, Pending, Line
  <2>11. ASSUME NEW c \in Callers, NEW n \in Nat
         PROVE  Ran(c, n)' <=> Ran(c, n) \/ <<c, n>> = message
    <3>1. Ran(c, n)' <=> \E j \in 1 .. Len(ran) + 1 : ran'[j] = <<c, n>>
      BY <2>9 DEF Ran
    <3>2. Ran(c, n) \/ <<c, n>> = message => Ran(c, n)'
      BY <2>9, <3>1 DEF Ran
    <3>3. \A j \in 1 .. Len(ran) + 1 : j \in 1 .. Len(ran) \/ j = Len(ran) + 1
      BY <2>9
    <3>4. ASSUME NEW j \in 1 .. Len(ran) + 1, ran'[j] = <<c, n>>
          PROVE  Ran(c, n) \/ <<c, n>> = message
      <4>1. CASE j \in 1 .. Len(ran)
        BY <2>9, <3>4, <4>1 DEF Ran
      <4>2. CASE j = Len(ran) + 1
        BY <2>9, <3>4, <4>2
      <4> QED
        BY <3>3, <4>1, <4>2
    <3> QED
      BY <3>1, <3>2, <3>4
  <2>12. ASSUME NEW c \in Callers
         PROVE  LogOf(c)'
    <3>1. LogOf(c)
      BY <1>2 DEF LogInv
    <3>2. CASE c = commandOwner
      <4>1. RunOnce(c)'
        BY <2>3, <2>5, <3>2 DEF RunOnce
      <4>2. \A n \in Nat : Ran(c, n)' <=> Ran(c, n) \/ n = asked[c]
        BY <2>6, <2>11, <3>2
      <4> QED
        BY <2>3, <2>6, <3>1, <3>2, <4>1, <4>2 DEF LogOf
    <3>3. CASE c # commandOwner
      <4>1. ~RunOnce(c)' /\ ~RunOnce(c)
        BY <2>3, <3>3 DEF RunOnce
      <4>2. \A n \in Nat : Ran(c, n)' <=> Ran(c, n)
        BY <2>6, <2>11, <3>3
      <4> QED
        BY <2>3, <3>1, <4>1, <4>2 DEF LogOf
    <3> QED
      BY <3>2, <3>3
  <2>13. RanInjective'
    <3>1. \A j \in 1 .. Len(ran) : ran[j] # message
      <4>1. ~Ran(commandOwner, asked[commandOwner])
        <5>1. asked[commandOwner] \in Nat
                /\ asked[commandOwner] \notin 1 .. Len(answers[commandOwner])
          BY <2>6, <2>7
        <5>2. LogOf(commandOwner)
          BY <1>2, <2>6 DEF LogInv
        <5> QED
          BY <2>6, <5>1, <5>2 DEF LogOf
      <4> QED
        BY <2>6, <4>1 DEF Ran
    <3>2. \A j \in 1 .. Len(ran') : j \in 1 .. Len(ran) \/ j = Len(ran) + 1
      BY <2>9
    <3> QED
      BY <1>2, <2>9, <3>1, <3>2 DEF RanInjective
  <2> QED
    BY <2>10, <2>12, <2>13 DEF CommandLog, LogInv
<1>6. CASE PublishResult
  <2>1. stack[1] = "publish" /\ Acts(stack) /\ Frame(stack, "publish")
    BY <1>1, <1>6 DEF PublishResult, Acts, Acting, Frame, StackSound
  <2>2. Pending /\ timers = 0
    BY <1>2, <2>1 DEF CommandInv, CommandTyped
  <2>3. /\ UNCHANGED <<caller, commandOwner, lineToProcess, timers, message, log>>
        /\ commandFinished' = TRUE
        /\ commandResult' = message
        /\ stack' = <<"notify">> \o Tail(stack)
    BY <1>6 DEF PublishResult
  <2>4. /\ OneActing(stack')
        /\ \A x \in Acting : Frame(stack', x) <=> x = "notify"
    BY <1>1, <1>2, <2>1, <2>3, ActingGoto DEF Acting, Procedures, CommandInv
  <2>5. ~Acts(stack') /\ ~Frame(stack', "run") /\ ~Frame(stack', "publish")
    BY <2>4 DEF Acts, Acting
  <2>6. caller[commandOwner] # "posted" /\ message = Line(commandOwner)
    BY <1>2, <2>1, <2>2 DEF CommandInv, Pending
  <2>7. CommandInv'
    BY <1>2, <2>2, <2>3, <2>4, <2>5, <2>6
    DEF CommandInv, CommandTyped, Pending, Line, log
  <2>8. ASSUME NEW c \in Callers
        PROVE  LogOf(c)'
    <3>1. LogOf(c) /\ (RunOnce(c)' <=> RunOnce(c))
      BY <1>2, <2>1, <2>3 DEF LogInv, RunOnce
    <3> QED
      BY <2>3, <3>1 DEF LogOf, Ran, log
  <2>9. RanInjective'
    BY <1>2, <2>3 DEF RanInjective, log
  <2> QED
    BY <2>7, <2>8, <2>9 DEF CommandLog, LogInv
<1> QED
  BY <1>3, <1>4, <1>5, <1>6
\* A line is posted, its timer started, its answer taken.
LEMMA CallerActs ==
    ASSUME CommandLog, NEW c \in Callers,
           PostLine(c) \/ StartTimer(c) \/ TakeResult(c)
    PROVE  CommandLog'
<1> USE DEF Step
<1>1. CommandInv /\ LogInv /\ RanInjective /\ c # None
  BY SessionAssumption DEF CommandLog
<1>2. UNCHANGED stack
  BY DEF PostLine, StartTimer, TakeResult, session
<1>3. CASE PostLine(c)
  <2>1. /\ UNCHANGED <<commandResult, message, timers, log>>
        /\ caller[c] = "asks" /\ caller' = [caller EXCEPT ![c] = "posted"]
        /\ commandOwner = None /\ commandOwner' = c
        /\ lineToProcess' = Line(c)
        /\ commandFinished' = FALSE /\ processingNeeded' = TRUE
    BY <1>3 DEF PostLine, Line
  <2>2. ~Pending /\ ~Acts(stack) /\ timers # 1
    BY <1>1, <2>1 DEF CommandInv, Pending
  <2>3. ~Frame(stack, "run") /\ ~Frame(stack, "publish")
    BY <2>2 DEF Acts, Acting
  <2>4. /\ CommandTyped'
        /\ caller'[c] = "posted"
        /\ \A d \in Callers : d # c => caller'[d] = caller[d]
    BY <1>1, <2>1 DEF CommandInv, CommandTyped, log
  <2>5. CommandInv'
    <3>1. \A d \in Callers : caller'[d] \in {"posted", "checks", "asleep"}
                                <=> commandOwner' = d
      BY <1>1, <2>1, <2>4, SessionAssumption DEF CommandInv
    <3>2. ~Pending' /\ commandOwner' # None
      BY <1>1, <2>1, <2>4 DEF Pending
    <3>3. lineToProcess' = Line(commandOwner)' /\ ~Acts(stack)' /\ OneActing(stack)'
      BY <1>1, <1>2, <2>1, <2>2 DEF Line, log, CommandInv, Acts, Frame, OneActing
    <3>4. ~Frame(stack, "run")' /\ ~Frame(stack, "publish")'
      BY <1>2, <2>3 DEF Frame
    <3> QED
      BY <2>1, <2>2, <2>4, <3>1, <3>2, <3>3, <3>4 DEF CommandInv
  <2>6. ASSUME NEW d \in Callers
        PROVE  LogOf(d)'
    <3>1. ~RunOnce(d)' /\ ~RunOnce(d)
      BY <1>1, <1>2, <2>1, <2>3, SessionAssumption DEF RunOnce
    <3>2. LogOf(d) /\ (caller'[d] = "idle" <=> caller[d] = "idle")
      BY <1>1, <2>1, <2>4 DEF LogInv
    <3> QED
      BY <2>1, <3>1, <3>2 DEF LogOf, Ran, log
  <2>7. RanInjective'
    BY <1>1, <2>1 DEF RanInjective, log
  <2> QED
    BY <2>5, <2>6, <2>7 DEF CommandLog, LogInv
<1>4. CASE StartTimer(c)
  <2>1. /\ UNCHANGED <<commandOwner, lineToProcess, processingNeeded,
                       commandFinished, commandResult, message, log>>
        /\ caller[c] = "posted" /\ caller' = [caller EXCEPT ![c] = "checks"]
        /\ timers' = timers + 1
    BY <1>4 DEF StartTimer
  <2>2. commandOwner = c /\ ~commandFinished
    BY <1>1, <2>1 DEF CommandInv
  <2>3. ~Pending /\ ~Acts(stack) /\ timers = 0
    BY <1>1, <2>1, <2>2 DEF CommandInv, CommandTyped, Pending
  <2>4. /\ CommandTyped'
        /\ caller'[c] = "checks"
        /\ \A d \in Callers : d # c => caller'[d] = caller[d]
    BY <1>1, <2>1, <2>3 DEF CommandInv, CommandTyped, log
  <2>5. CommandInv'
    BY <1>1, <1>2, <2>1, <2>2, <2>3, <2>4 DEF CommandInv, Pending, Line, log
  <2>6. ASSUME NEW d \in Callers
        PROVE  LogOf(d)'
    <3>1. RunOnce(d)' <=> RunOnce(d)
      BY <1>2, <2>1 DEF RunOnce
    <3>2. LogOf(d) /\ (caller'[d] = "idle" <=> caller[d] = "idle")
      BY <1>1, <2>1, <2>4 DEF LogInv
    <3> QED
      BY <2>1, <3>1, <3>2 DEF LogOf, Ran, log
  <2>7. RanInjective'
    BY <1>1, <2>1 DEF RanInjective, log
  <2> QED
    BY <2>5, <2>6, <2>7 DEF CommandLog, LogInv
<1>5. CASE TakeResult(c)
  <2>1. /\ UNCHANGED <<lineToProcess, processingNeeded, commandFinished,
                       commandResult, message, timers, ran, asked>>
        /\ caller[c] = "checks" /\ caller' = [caller EXCEPT ![c] = "idle"]
        /\ commandFinished
        /\ answers' = [answers EXCEPT ![c] = Append(@, commandResult)]
        /\ commandOwner' = None
    BY <1>5 DEF TakeResult
  <2>2. commandOwner = c /\ commandResult = <<c, asked[c]>>
    BY <1>1, <2>1 DEF CommandInv, Line
  <2>3. ~Pending /\ ~Acts(stack) /\ timers # 1 /\ RunOnce(c)
    BY <1>1, <2>1, <2>2 DEF CommandInv, Pending, RunOnce
  <2>4. /\ answers[c] \in Seq(Callers \X Nat)
        /\ asked[c] = Len(answers[c]) + 1 /\ asked[c] \in Nat
        /\ commandResult \in Callers \X Nat
    BY <1>1, <2>1, <2>2 DEF CommandInv, CommandTyped, LogInv, LogOf
  <2>5. /\ Append(answers[c], commandResult) \in Seq(Callers \X Nat)
        /\ Len(Append(answers[c], commandResult)) = Len(answers[c]) + 1
        /\ Append(answers[c], commandResult)[Len(answers[c]) + 1] = commandResult
        /\ \A i \in 1 .. Len(answers[c]) :
              Append(answers[c], commandResult)[i] = answers[c][i]
        /\ Len(answers[c]) \in Nat
    BY <2>4
  <2>6. /\ CommandTyped'
        /\ caller'[c] = "idle" /\ answers'[c] = Append(answers[c], commandResult)
        /\ \A d \in Callers : d # c => caller'[d] = caller[d] /\ answers'[d] = answers[d]
    BY <1>1, <2>1, <2>5 DEF CommandInv, CommandTyped
  <2>7. CommandInv'
    <3>1. \A d \in Callers : caller'[d] \in {"posted", "checks", "asleep"}
                                <=> commandOwner' = d
      BY <1>1, <2>1, <2>2, <2>6, SessionAssumption DEF CommandInv
    <3>2. ~Pending'
      BY <2>1 DEF Pending
    <3>3. ~Frame(stack, "run") /\ ~Frame(stack, "publish")
      BY <2>3 DEF Acts, Acting
    <3> QED
      BY <1>1, <1>2, <2>1, <2>3, <2>6, <3>1, <3>2, <3>3 DEF CommandInv, Acts, Frame
  <2>8. ASSUME NEW d \in Callers
        PROVE  LogOf(d)'
    <3>1. LogOf(d) /\ ~RunOnce(d)'
      BY <1>1, <2>1, SessionAssumption DEF LogInv, RunOnce
    <3>2. CASE d = c
      <4>1. Len(answers'[c]) = Len(answers[c]) + 1
        BY <2>5, <2>6
      <4>2. \A i \in 1 .. Len(answers'[c]) : answers'[c][i] = <<c, i>>
        <5>1. \A i \in 1 .. Len(answers[c]) + 1 :
                 i \in 1 .. Len(answers[c]) \/ i = Len(answers[c]) + 1
          BY <2>5
        <5> QED
          BY <2>2, <2>4, <2>5, <2>6, <3>1, <3>2, <4>1, <5>1 DEF LogOf
      <4>3. \A n \in Nat : n \in 1 .. Len(answers'[c])
                              <=> n \in 1 .. Len(answers[c]) \/ n = asked[c]
        BY <2>4, <2>5, <4>1
      <4> QED
        BY <2>1, <2>3, <2>4, <2>6, <3>1, <3>2, <4>1, <4>2, <4>3 DEF LogOf, Ran
    <3>3. CASE d # c
      <4>1. ~RunOnce(d)
        BY <2>2, <3>3 DEF RunOnce
      <4> QED
        BY <2>1, <2>6, <3>1, <3>3, <4>1 DEF LogOf, Ran
    <3> QED
      BY <3>2, <3>3
  <2>9. RanInjective'
    BY <1>1, <2>1 DEF RanInjective
  <2> QED
    BY <2>7, <2>8, <2>9 DEF CommandLog, LogInv
<1> QED
  BY <1>3, <1>4, <1>5
\* A Stop that returns puts no frame on the stack that acts.
LEMMA QuietStopReturns ==
    ASSUME StackSound(stack), stack[1] \notin Acting, NEW l, StopReturns(l)
    PROVE  Quiet(stack, stack')
<1> USE DEF StopReturns, Goto, Call, Procedures, Bottom, InLoop, Acting
<1>1. CASE Goto("1_input_loop")
  BY <1>1, QuietGoto
<1>2. CASE Call("test", "stop_all")
  BY <1>2, QuietCall
<1> QED
  BY <1>1, <1>2

LEMMA MainCommand ==
    ASSUME StackInv, CommandLog, MainStep
    PROVE  CommandLog'
<1> USE DEF At, Goto, Call, Return, Procedures, Bottom, InLoop, Acting
<1>1. /\ StackSound(stack) /\ Head(stack) = stack[1]
  BY DEF StackInv, StackSound
<1>2. CASE UNCHANGED <<stack, caller, command, log>>
  BY <1>2, QuietStep DEF Quiet, Frame, OneActing
<1>3. CASE SetUp
  <2>1. CASE Goto("resume")
    <3>1. Quiet(stack, stack')
      BY <1>1, <1>3, <2>1, QuietGoto DEF SetUp
    <3> QED
      BY <1>3, <3>1, QuietStep DEF SetUp
  <2> QED
    BY <1>2, <1>3, <2>1 DEF SetUp
<1>4. ASSUME NEW l \in AllLoops, ResumeLock(l) \/ ResumeUnlock(l)
      PROVE  CommandLog'
  BY <1>2, <1>4 DEF ResumeLock, ResumeUnlock
<1>5. CASE ResumeDone
  <2>1. Quiet(stack, stack')
    BY <1>1, <1>5, QuietCall DEF ResumeDone
  <2> QED
    BY <1>5, <2>1, QuietStep DEF ResumeDone
<1>6. CASE Applied
  <2>1. CASE Call("terminate", "prompt")
    <3>1. Quiet(stack, stack')
      BY <1>1, <1>6, <2>1, QuietCall DEF Applied
    <3> QED
      BY <1>6, <3>1, QuietStep DEF Applied
  <2>2. CASE Goto("prompt")
    <3>1. Quiet(stack, stack')
      BY <1>1, <1>6, <2>2, QuietGoto DEF Applied
    <3> QED
      BY <1>6, <3>1, QuietStep DEF Applied
  <2> QED
    BY <1>6, <2>1, <2>2 DEF Applied
<1>7. CASE Test
  <2>1. CASE Goto("sleep")
    <3>1. Quiet(stack, stack')
      BY <1>1, <1>7, <2>1, QuietGoto DEF Test
    <3> QED
      BY <1>7, <3>1, QuietStep DEF Test
  <2>2. CASE Return
    <3>1. Quiet(stack, stack')
      BY <1>1, <1>7, <2>2, QuietReturn DEF Test
    <3> QED
      BY <1>7, <3>1, QuietStep DEF Test
  <2> QED
    BY <1>7, <2>1, <2>2 DEF Test
<1>8. CASE Sleep
  <2>1. CASE Goto("events")
    <3>1. Quiet(stack, stack')
      BY <1>1, <1>8, <2>1, QuietGoto DEF Sleep
    <3> QED
      BY <1>8, <3>1, QuietStep DEF Sleep
  <2>2. CASE Call("terminate", "events")
    <3>1. Quiet(stack, stack')
      BY <1>1, <1>8, <2>2, QuietCall DEF Sleep
    <3> QED
      BY <1>8, <3>1, QuietStep DEF Sleep
  <2> QED
    BY <1>8, <2>1, <2>2 DEF Sleep
<1>9. CASE EventsProcessed
  <2>1. Quiet(stack, stack')
    BY <1>1, <1>9, QuietGoto DEF EventsProcessed
  <2> QED
    BY <1>9, <2>1, QuietStep DEF EventsProcessed
<1>10. CASE Terminate
  <2>1. CASE Goto("send_stop")
    <3>1. Quiet(stack, stack')
      BY <1>1, <1>10, <2>1, QuietGoto DEF Terminate
    <3> QED
      BY <1>10, <3>1, QuietStep DEF Terminate
  <2>2. CASE Return
    <3>1. Quiet(stack, stack')
      BY <1>1, <1>10, <2>2, QuietReturn DEF Terminate
    <3> QED
      BY <1>10, <3>1, QuietStep DEF Terminate
  <2> QED
    BY <1>10, <2>1, <2>2 DEF Terminate
<1>11. CASE SendStop
  <2>1. Quiet(stack, stack')
    BY <1>1, <1>11, QuietGoto DEF SendStop
  <2> QED
    BY <1>11, <2>1, QuietStep DEF SendStop
<1>16. ASSUME NEW l \in Sources, NoSuchSource(l)
       PROVE  CommandLog'
  <2>1. Quiet(stack, stack')
    BY <1>1, <1>16, QuietStopReturns DEF NoSuchSource, Sources
  <2> QED
    BY <1>16, <2>1, QuietStep DEF NoSuchSource
<1>17. ASSUME NEW l \in Sources, Stop(l)
       PROVE  CommandLog'
  <2>1. Quiet(stack, stack')
    BY <1>1, <1>17, QuietGoto DEF Stop, Sources
  <2> QED
    BY <1>17, <2>1, QuietStep DEF Stop
<1>18. CASE StopUnlock
  <2>1. Quiet(stack, stack')
    BY <1>1, <1>18, QuietStopReturns DEF StopUnlock
  <2> QED
    BY <1>18, <2>1, QuietStep DEF StopUnlock
<1>12. CASE StopAll
  BY <1>2, <1>12 DEF StopAll
<1>13. CASE HandlerReturns
  <2>1. Quiet(stack, stack')
    BY <1>1, <1>13, QuietReturn DEF HandlerReturns
  <2> QED
    BY <1>13, <2>1, QuietStep DEF HandlerReturns
<1>14. CASE TimerFires \/ TakeLine \/ RunLine \/ PublishResult
  BY <1>14, LineActs
<1>15. CASE NotifyResult
  <2>1. Quiet(stack, stack')
    BY <1>1, <1>15, QuietReturn DEF NotifyResult
  <2>2. CASE UNCHANGED caller
    BY <1>15, <2>1, <2>2, QuietStep DEF NotifyResult
  <2>3. ASSUME NEW c \in Callers, caller[c] = "asleep",
               caller' = [caller EXCEPT ![c] = "checks"]
        PROVE  CommandLog'
    BY <1>15, <2>1, <2>3, WaiterMoves DEF NotifyResult, log, command
  <2> QED
    BY <1>15, <2>2, <2>3 DEF NotifyResult
<1> QED
  BY <1>3, <1>4, <1>5, <1>6, <1>7, <1>8, <1>9, <1>10, <1>11, <1>12, <1>13,
     <1>14, <1>15, <1>16, <1>17, <1>18 DEF MainStep

LEMMA NextCommand ==
    ASSUME StackInv, CommandLog, [Next]_vars
    PROVE  CommandLog'
<1>1. /\ StackSound(stack) /\ Head(stack) = stack[1]
  BY DEF StackInv, StackSound
<1>2. CASE UNCHANGED <<stack, caller, command, log>>
  BY <1>2, QuietStep DEF Quiet, Frame, OneActing
<1>3. CASE MainStep
  BY <1>3, MainCommand
<1>4. CASE Quit
  <2>1. Quiet(stack, stack')
    BY <1>1, <1>4, QuietCall DEF Quit, At, Call, Procedures, Bottom, InLoop, Acting
  <2> QED
    BY <1>4, <2>1, QuietStep DEF Quit
<1>5. CASE Notify
  <2>1. CASE FirstPress
    <3>1. Quiet(stack, stack')
      BY <1>1, <2>1, QuietPress DEF FirstPress
    <3> QED
      BY <2>1, <3>1, QuietStep DEF FirstPress
  <2>2. CASE ~FirstPress
    BY <1>2, <1>5, <2>2 DEF Notify, SecondPress, Exit
  <2> QED
    BY <2>1, <2>2
<1>6. ASSUME NEW l \in AllLoops, LoopStep(l) \/ Push(l, TRUE)
      PROVE  CommandLog'
  <2>1. ASSUME NEW q \in DOMAIN queued, TakeItem(l, q)
        PROVE  CommandLog'
    <3>1. UNCHANGED <<stack, command, ran, answers>>
      BY <2>1 DEF TakeItem, Others
    <3>2. CASE UNCHANGED <<caller, asked>>
      BY <1>2, <3>1, <3>2 DEF log
    <3>3. CASE /\ l \in Callers /\ caller[l] = "idle"
               /\ caller' = [caller EXCEPT ![l] = "asks"]
               /\ asked' = [asked EXCEPT ![l] = @ + 1]
      BY <3>1, <3>3, ThreadAsks
    <3> QED
      BY <2>1, <3>2, <3>3 DEF TakeItem
  <2>2. CASE \/ ReadEvent(l) \/ SleepAtEnd(l) \/ SourceEnds(l)
             \/ Push(l, TRUE) \/ Push(l, FALSE) \/ IterationEnds(l)
             \/ LoopEnds(l) \/ OnEnd(l)
    BY <1>2, <2>2 DEF ReadEvent, SleepAtEnd, SourceEnds, Push, IterationEnds,
                      LoopEnds, OnEnd, Others
  <2> QED
    BY <1>6, <2>1, <2>2 DEF LoopStep
<1>7. ASSUME NEW c \in Callers, CallerStep(c) \/ WakeUp(c)
      PROVE  CommandLog'
  <2>1. CASE c = News /\ AskNews
    <3>1. /\ UNCHANGED <<stack, command, ran, answers>>
          /\ caller[c] = "idle" /\ caller' = [caller EXCEPT ![c] = "asks"]
          /\ asked[c] = 0 /\ asked' = [asked EXCEPT ![c] = 1]
      BY <2>1 DEF AskNews, Step, session
    <3>2. asked' = [asked EXCEPT ![c] = @ + 1]
      BY <3>1 DEF CommandLog, CommandInv, CommandTyped
    <3> QED
      BY <3>1, <3>2, ThreadAsks
  <2>2. CASE PostLine(c) \/ StartTimer(c) \/ TakeResult(c)
    BY <2>2, CallerActs
  <2>3. CASE WaitForResult(c) \/ WakeUp(c)
    <3>1. /\ UNCHANGED <<stack, command, log>>
          /\ \/ caller[c] = "checks" /\ caller' = [caller EXCEPT ![c] = "asleep"]
             \/ caller[c] = "asleep" /\ caller' = [caller EXCEPT ![c] = "checks"]
      BY <2>3 DEF WaitForResult, WakeUp, Step, session
    <3>2. Quiet(stack, stack')
      BY <3>1 DEF Quiet, Frame, OneActing
    <3> QED
      BY <3>1, <3>2, WaiterMoves
  <2> QED
    BY <1>7, <2>1, <2>2, <2>3 DEF CallerStep
<1>8. CASE UNCHANGED vars
  BY <1>2, <1>8 DEF vars
<1> QED
  BY <1>3, <1>4, <1>5, <1>6, <1>7, <1>8 DEF Next

\* DelayedProcessLine runs the lines of any number of threads one at a time,
\* each once, and gives each call the result of its own line.
THEOREM LinesRunOnce == Spec => []EveryLineRunOnce
<1>1. CommandLog => EveryLineRunOnce
  <2> SUFFICES ASSUME CommandLog
               PROVE  EveryLineRunOnce
    OBVIOUS
  <2>1. \A i, j \in DOMAIN ran : ran[i] = ran[j] => i = j
    <3>1. DOMAIN ran = 1 .. Len(ran)
      BY DEF CommandLog, CommandInv, CommandTyped
    <3> QED
      BY <3>1 DEF CommandLog, RanInjective
  <2>2. ASSUME NEW c \in Callers
        PROVE  /\ answers[c] = [i \in 1 .. Len(answers[c]) |-> <<c, i>>]
               /\ \A i \in DOMAIN answers[c] : \E j \in DOMAIN ran : ran[j] = <<c, i>>
    <3>1. /\ answers[c] \in Seq(Callers \X Nat) /\ DOMAIN ran = 1 .. Len(ran)
          /\ LogOf(c)
      BY DEF CommandLog, CommandInv, CommandTyped, LogInv
    <3>2. /\ answers[c] = [i \in 1 .. Len(answers[c]) |-> answers[c][i]]
          /\ DOMAIN answers[c] = 1 .. Len(answers[c])
          /\ Len(answers[c]) \in Nat
      BY <3>1
    <3>3. answers[c] = [i \in 1 .. Len(answers[c]) |-> <<c, i>>]
      BY <3>1, <3>2 DEF LogOf
    <3>4. \A i \in 1 .. Len(answers[c]) : Ran(c, i)
      BY <3>1, <3>2 DEF LogOf
    <3> QED
      BY <3>1, <3>2, <3>3, <3>4 DEF Ran
  <2> QED
    BY <2>1, <2>2 DEF EveryLineRunOnce
<1> QED
  BY <1>1, InitStack, NextStack, InitCommand, NextCommand, PTL DEF Spec
\* In every session the loops are connected as they should be.
THEOREM WiringCorrect == Spec => []WiringSound
<1>1. WiringSound
  BY Wiring DEF WiringSound
<1> QED
  BY <1>1, PTL
=============================================================================
