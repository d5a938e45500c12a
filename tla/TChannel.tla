------------------------------ MODULE TChannel ------------------------------
(***************************************************************************)
(* The calibration of the channels (libraries/TFormat/TChannel.cxx): the   *)
(* map of the channels by address, the map of the same objects by number,  *)
(* the text fFileData of the last file, and the root file the channels are *)
(* written to.                                                             *)
(*                                                                         *)
(* A channel has a number; a gain, which stands for every field that a     *)
(* file sets with its priority and that is written again (coefficients of  *)
(* the energy, its drift, CFD, time, efficiency and cross talk, the        *)
(* nonlinearities, digitizer; and integration, time offset and drift,      *)
(* which are written also if they are 0); led, which stands for the fields *)
(* that a file sets with its priority and that are never written (the LED  *)
(* coefficients, the stream, the chi squares of CFD, LED and time); and a  *)
(* range, which stands for the energy ranges and their chi squares, set    *)
(* without a priority.  Zero means not given: an empty vector, number 0.   *)
(* Names, the mnemonic, the detector type and the wave-form parameters are *)
(* left out.                                                               *)
(* A channel in the map is known by its address, since only                *)
(* DeleteAllChannels removes one.                                          *)
(***************************************************************************)
EXTENDS Integers, Sequences, FiniteSets, TPriorityValue

CONSTANTS
    Addresses,      \* natural numbers, which also order the channels' names
    Files,          \* cal files and foreign root files: sequences of entries
    Values,         \* what a user gives: numbers, gains
    OpBound         \* operations in a behaviour

VARIABLES
    fChannelMap,        \* address -> channel
    fChannelNumberMap,  \* number -> address of the object, or Stray
    fFileData,          \* the entries of the last text
    rootFile,           \* the entries under the file's TChannel key
    given,              \* address -> history of <<priority, gain>>
    lastRead,           \* the cal file just read, or <<>>
    channelOps

channelVars == <<fChannelMap, fChannelNumberMap, fFileData, rootFile, given,
                 lastRead, channelOps>>

Stray == -1     \* an object that is not, or no longer, in fChannelMap
NoAddress == 0  \* 0xffffff, the address of an entry that gives none
NoKey == <<>>   \* the file has no TChannel yet

Entries == [address : Addresses \cup {NoAddress}, number : Nat, gain : Nat,
            led : Nat, range : Nat]

ASSUME ChannelAssumption ==
    /\ Addresses \subseteq Nat \ {NoAddress}
    /\ Files \subseteq Seq(Entries)
    /\ Values \subseteq Nat
    /\ OpBound \in Nat
-----------------------------------------------------------------------------
(* The two maps.  What the operations pass on is a record of both and of   *)
(* the history.                                                            *)

Here == [channels |-> fChannelMap, numbers |-> fChannelNumberMap,
         given |-> given]

Without(f, S) == [x \in DOMAIN f \ S |-> f[x]]
With(f, x, y) == [z \in DOMAIN f \cup {x} |-> IF z = x THEN y ELSE f[z]]

Register(numbers, n, object) ==
    IF n # 0 /\ n \notin DOMAIN numbers THEN With(numbers, n, object)
                                        ELSE numbers

\* SetNumber on the object, which has the number own: the value may win or
\* not, the old number is no longer registered either way.
NumberAfter(own, new) == IF own.value = new.value THEN own ELSE CopyAssign(own, new)
NumbersAfter(numbers, own, new, object) ==
    IF own.value = new.value THEN numbers
    ELSE Register(Without(numbers, {own.value}), NumberAfter(own, new).value, object)

Note(history, a, prio, v) ==
    [history EXCEPT ![a] = IF prio = kDefault THEN @ ELSE Append(@, <<prio, v>>)]

PrioOf(v, prio) == IF v = 0 THEN kDefault ELSE prio

\* The channel that ParseInputData fills from an entry, and what its
\* SetNumber does to the map while it is not in fChannelMap.
Parsed(e, prio) ==
    [number |-> Prioritised(e.number, PrioOf(e.number, prio)),
     gain |-> Prioritised(e.gain, PrioOf(e.gain, prio)),
     led |-> Prioritised(e.led, PrioOf(e.led, prio)),
     range |-> Prioritised(e.range, kDefault)]
TempNumbers(numbers, e, object) ==
    IF e.number = 0 THEN numbers
    ELSE Register(Without(numbers, {0}), e.number, object)

AddChannel(s, a, chan, numbers) ==
    [channels |-> With(s.channels, a, chan),
     numbers |-> Register(numbers, chan.number.value, a),
     given |-> Note(s.given, a, chan.gain.priority, chan.gain.value)]

AppendChannel(s, a, chan, numbers) ==
    LET old == s.channels[a] IN
    [channels |-> [s.channels EXCEPT ![a] =
        [number |-> NumberAfter(old.number, chan.number),
         gain |-> CopyAssign(old.gain, chan.gain),
         led |-> CopyAssign(old.led, chan.led),
         range |-> CopyAssign(old.range, chan.range)]],
     numbers |-> NumbersAfter(numbers, old.number, chan.number, a),
     given |-> Note(s.given, a, chan.gain.priority, chan.gain.value)]

\* One block of the text: a new object, which goes into the map if its
\* address is free, and is else deleted after the old one took its fields.
ParseEntry(s, e, prio) ==
    LET chan == Parsed(e, prio) IN
    IF e.address \in DOMAIN s.channels
    THEN AppendChannel(s, e.address, chan, TempNumbers(s.numbers, e, Stray))
    ELSE IF e.address = NoAddress
    THEN [s EXCEPT !.numbers = TempNumbers(s.numbers, e, Stray)]
    ELSE AddChannel(s, e.address, chan, TempNumbers(s.numbers, e, e.address))

ParseInputData(s, text, prio) ==
    LET parsed[n \in 0 .. Len(text)] ==
            IF n = 0 THEN s ELSE ParseEntry(parsed[n - 1], text[n], prio)
    IN  parsed[Len(text)]

\* The addresses in the order of the names.
Sorted(S) ==
    [i \in 1 .. Cardinality(S) |->
        CHOOSE a \in S : Cardinality({b \in S : b <= a}) = i]

\* Faulty: the text is written without the ranges.
PrintWithoutRange(a, chan) ==
    [address |-> a, number |-> chan.number.value, gain |-> chan.gain.value,
     led |-> 0, range |-> 0]

\* The block of a channel, which has no line for led.
PrintToString(a, chan) ==
    [address |-> a, number |-> chan.number.value, gain |-> chan.gain.value,
     led |-> 0, range |-> chan.range.value]

\* WriteCalBuffer and SaveToSelf: every channel, in the order of the names.
WriteCalBuffer(channels) ==
    LET order == Sorted(DOMAIN channels) IN
    [i \in DOMAIN order |-> PrintToString(order[i], channels[order[i]])]

NoChannels == [channels |-> <<>>, numbers |-> <<>>,
               given |-> [a \in Addresses |-> <<>>]]

Become(s) ==
    /\ fChannelMap' = s.channels
    /\ fChannelNumberMap' = s.numbers
    /\ given' = s.given

Operation(read) ==
    /\ channelOps < OpBound
    /\ channelOps' = channelOps + 1
    /\ lastRead' = read
-----------------------------------------------------------------------------
(* The operations                                                          *)

ChannelInit ==
    /\ fChannelMap = <<>>
    /\ fChannelNumberMap = <<>>
    /\ fFileData = <<>>
    /\ rootFile = NoKey
    /\ given = [a \in Addresses |-> <<>>]
    /\ lastRead = <<>>
    /\ channelOps = 0

\* The numbers as ReadCalFile registers them again: number 0 too, and of
\* several channels with one number the first in the order of a hash map.
Renumbered(channels) ==
    LET carried == {channels[a].number.value : a \in DOMAIN channels} IN
    {m \in [carried -> DOMAIN channels] :
        \A n \in carried : channels[m[n]].number.value = n}

\* Faulty: ReadCalFile leaves the number map as SetNumber left it.
ReadCalFileOnly(text) ==
    LET s == ParseInputData(Here, text, kInputFile) IN
    /\ Operation(text)
    /\ Become(s)
    /\ fFileData' = WriteCalBuffer(s.channels)
    /\ UNCHANGED rootFile

ReadCalFile(text) ==
    LET s == ParseInputData(Here, text, kInputFile) IN
    /\ Operation(text)
    /\ fChannelMap' = s.channels
    /\ given' = s.given
    /\ fFileData' = WriteCalBuffer(s.channels)
    /\ fChannelNumberMap' \in Renumbered(s.channels)
    /\ UNCHANGED rootFile

\* The Streamer of the TChannel in another root file, or of the one written.
ReadRootFile(text) ==
    /\ Operation(<<>>)
    /\ fFileData' = text
    /\ Become(ParseInputData(Here, text, kRootFile))
    /\ UNCHANGED rootFile

\* A setter called on a channel of the map with kUser.
SetNumber(a, n) ==
    LET own == fChannelMap[a].number
        new == Prioritised(n, kUser)
    IN  /\ Operation(<<>>)
        /\ fChannelMap' = [fChannelMap EXCEPT ![a].number = NumberAfter(own, new)]
        /\ fChannelNumberMap' = NumbersAfter(fChannelNumberMap, own, new, a)
        /\ UNCHANGED <<fFileData, rootFile, given>>

SetGain(a, v) ==
    /\ Operation(<<>>)
    /\ fChannelMap' = [fChannelMap EXCEPT ![a].gain =
                           CopyAssign(@, Prioritised(v, kUser))]
    /\ given' = Note(given, a, kUser, v)
    /\ UNCHANGED <<fChannelNumberMap, fFileData, rootFile>>

\* TGainMatch::WriteToChannel: DestroyENGCal and AddENGCoefficient change
\* the vectors themselves and leave the priority as it is.
WriteToChannel(a, v) ==
    /\ Operation(<<>>)
    /\ fChannelMap' = [fChannelMap EXCEPT ![a].gain.value = v, ![a].range.value = 0]
    /\ given' = [given EXCEPT ![a] =
                     Append(@, <<fChannelMap[a].gain.priority, v>>)]
    /\ UNCHANGED <<fChannelNumberMap, fFileData, rootFile>>

\* A channel made and numbered by hand, then AddChannel(chan, "overwrite")
\* for an address that has one: its values are forced on the old object,
\* which SetNumber and AddChannel both register.
OverWriteChannel(e) ==
    LET old == fChannelMap[e.address]
        forced == Prioritised(e.number, kForce)
        temp == TempNumbers(fChannelNumberMap, e, Stray)
        after == NumbersAfter(temp, old.number, forced, e.address)
    IN  /\ e.address \in DOMAIN fChannelMap
        /\ Operation(<<>>)
        /\ fChannelMap' = [fChannelMap EXCEPT ![e.address] =
               [number |-> NumberAfter(old.number, forced),
                gain |-> Prioritised(e.gain, kForce),
                led |-> Prioritised(e.led, kForce),
                range |-> Prioritised(e.range, kForce)]]
        /\ fChannelNumberMap' =
               IF old.number.value = e.number THEN after
               ELSE Register(Without(after, {old.number.value}), e.number, e.address)
        /\ given' = Note(given, e.address, kForce, e.gain)
        /\ UNCHANGED <<fFileData, rootFile>>

DeleteAllChannels ==
    /\ Operation(<<>>)
    /\ Become(NoChannels)
    /\ UNCHANGED <<fFileData, rootFile>>

\* With a TChannel key in the file, the old object is read, which parses its
\* text, and every channel is deleted; the channels then come back from their
\* own text, at the priority of a root file.
WriteToRoot ==
    LET saved == WriteCalBuffer(fChannelMap)
        afterKeys == IF rootFile = NoKey THEN Here ELSE NoChannels
        restored == ParseInputData(afterKeys, saved, kRootFile)
        older == ParseInputData(restored,
                     fFileData, kRootFile)
        again == ParseInputData(older, saved, kRootFile)
    IN  /\ fChannelMap # <<>>
        /\ Operation(<<>>)
        /\ Become(again)
        /\ fFileData' = WriteCalBuffer(again.channels)
        /\ rootFile' = WriteCalBuffer(restored.channels)

ChannelNext ==
    \/ \E f \in Files : ReadCalFile(f) \/ ReadRootFile(f)
    \/ rootFile # NoKey /\ ReadRootFile(rootFile)
    \/ \E a \in DOMAIN fChannelMap, v \in Values :
           SetNumber(a, v) \/ SetGain(a, v) \/ WriteToChannel(a, v)
    \/ \E f \in Files : \E i \in DOMAIN f : OverWriteChannel(f[i])
    \/ DeleteAllChannels
    \/ WriteToRoot

ChannelSpec == ChannelInit /\ [][ChannelNext]_channelVars
-----------------------------------------------------------------------------
(* What must hold                                                          *)

\* ReadCalFile leaves GetChannelByNumber able to find every number that a
\* channel carries, as a channel that carries it, whatever was read, set,
\* overwritten or deleted before (TChannel.cxx:1155-1160).
NumbersFoundAfterCalFile ==
    lastRead # <<>> =>
        \A a \in DOMAIN fChannelMap :
            LET n == fChannelMap[a].number.value IN
            /\ n \in DOMAIN fChannelNumberMap
            /\ fChannelNumberMap[n] \in DOMAIN fChannelMap
            /\ fChannelMap[fChannelNumberMap[n]].number.value = n

\* A gain is the last of those that were given with the highest priority
\* since the channel exists, in whatever order the files, the user and the
\* writing of a root file came (TPriorityValue.h:75-82).
HighestPriorityWins ==
    \A a \in DOMAIN fChannelMap :
        LET h == given[a]
            best == {i \in DOMAIN h : \A j \in DOMAIN h : h[j][1] <= h[i][1]}
            last == CHOOSE i \in best : \A j \in best : j <= i
        IN  IF h = <<>> THEN fChannelMap[a].gain.value = 0
                        ELSE fChannelMap[a].gain.value = h[last][2]

\* The text of the channels gives them, with these fields, back to a program
\* that has none.
ReadBackFrom(fields) ==
    LET read == ParseInputData(NoChannels, WriteCalBuffer(fChannelMap),
                               kRootFile).channels
    IN  /\ DOMAIN read = DOMAIN fChannelMap
        /\ \A a \in DOMAIN read, field \in fields :
               read[a][field].value = fChannelMap[a][field].value

\* What is written of any channels is read as the same addresses, with the
\* numbers, gains and ranges they have (TChannel.cxx:1071-1086, 1195-1400): no
\* block is taken for another's, dropped or spoiled by one before it.
WrittenIsRead == ReadBackFrom({"number", "gain", "range"})

\* And with all that a cal file can give a channel: "writes any TChannels in
\* memory to the internal buffer fFileData.  Can be used to over write info
\* that is there" (TChannel.cxx:1073).  It is violated: PrintToString has no
\* line for the LED coefficients and four other fields, so a root file that is
\* written, from which WriteToRoot restores the channels, loses them.
AllIsWritten == ReadBackFrom({"number", "gain", "led", "range"})

\* A cal file's range is the channel's range once it is read, unless one was
\* given with a higher priority (TChannel.cxx:411).
UpdatedFromFile ==
    \A i \in DOMAIN lastRead :
        LET e == lastRead[i] IN
        (/\ e.address # NoAddress
         /\ e.range # 0
         /\ \A j \in DOMAIN lastRead : j > i => lastRead[j].address # e.address
         /\ fChannelMap[e.address].range.priority <= kInputFile)
            => fChannelMap[e.address].range.value = e.range
=============================================================================
