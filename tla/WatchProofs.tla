----------------------------- MODULE WatchProofs -----------------------------
(***************************************************************************)
(* What is proved of Watch, for any programs, drafts and number of edits:  *)
(* a watched source that nobody edits any more is the one the file was     *)
(* generated from.                                                         *)
(***************************************************************************)
EXTENDS Watch, TLAPS

Stages == {"parse", "write", "writing", "done", "failed", "killed"}
Reads == [source : Programs, typed : BOOLEAN]
Gens == [at : Stages, version : Nat, read : Reads \cup {None}]

\* Each generation is due to an event of its own, each event to an edit.
Due == IF debounce THEN 1 ELSE 0

Typed ==
  /\ source \in Programs /\ edits \in 0..MaxEdits /\ flags \subseteq {"watch", "dry"}
  /\ at \in {"generate", "loop", "exit"}
  /\ events \in Nat /\ debounce \in BOOLEAN
  /\ gens \in Seq(Gens) /\ Len(gens) >= 1
  /\ \A g \in DOMAIN gens : gens[g].version <= edits
  /\ noticed \in 0..edits
  /\ Len(gens) + events + Due <= edits + 1

\* The type invariant follows: the bounds on events and generations are those
\* of the edits.
LEMMA TypedCorrect == Typed => TypeOK
  <1> SUFFICES ASSUME Typed PROVE TypeOK
    OBVIOUS
  <1>1. /\ Len(gens) \in Nat /\ Due \in 0..1 /\ edits \in Nat /\ MaxEdits \in Nat
        /\ DOMAIN gens = 1..Len(gens)
    BY WatchAssumption DEF Typed, Due
  <1>2. events \in 0..MaxEdits /\ Len(gens) \in 1..MaxEdits + 1
    BY <1>1 DEF Typed
  <1>3. ASSUME NEW g \in DOMAIN gens PROVE gens[g].at \in Stages /\ gens[g].version \in 0..edits
    <2>1. gens[g] \in Gens
      BY <1>3, <1>1 DEF Typed
    <2>2. gens[g].version <= edits
      BY <1>3 DEF Typed
    <2> QED BY <2>1, <2>2, <1>1 DEF Gens
  <1> QED BY <1>1, <1>2, <1>3 DEF Typed, TypeOK, Stages

\* What a generation writes, once it has read a source ...
ReadOf(g) ==
  gens[g].at \in {"write", "writing", "done"} =>
    /\ gens[g].read \in Reads
    /\ gens[g].version = edits => gens[g].read.source = source

\* ... and what is in the file when no two generations overlapped: only the
\* last one may still be running, and it finds the file as it left it.
Latest == Len(gens)

Alone == \A g \in DOMAIN gens : g # Latest => ~Running(g)

Written ==
  /\ gens[Latest].at = "writing" => output = Truncated
  /\ gens[Latest].at = "done" /\ "dry" \notin flags => output = gens[Latest].read

\* An edit that was noticed has an event, a timer, or a generation that will
\* read it or has.
Covered ==
  at # "exit" =>
    events > 0 \/ debounce \/ gens[Latest].at = "parse" \/ gens[Latest].version >= noticed

\* Before the watcher is set up there is the first generation only; dry runs
\* write nothing.
FirstOnly == at = "generate" => Len(gens) = 1 /\ events = 0 /\ ~debounce

FileInv ==
  /\ \A g \in DOMAIN gens : ReadOf(g)
  /\ ~overlapped => Alone /\ Written
  /\ Covered
  /\ FirstOnly
  /\ "dry" \in flags => \A g \in DOMAIN gens : gens[g].at \notin {"write", "writing"}

WatchInv == Typed /\ FileInv

-----------------------------------------------------------------------------
LEMMA InitInv == Init => WatchInv
  <1> SUFFICES ASSUME Init PROVE WatchInv
    OBVIOUS
  <1>1. /\ Begun \in Gens /\ Begun.at = "parse" /\ Begun.version = 0
    BY DEF Begun, Gens, Stages
  <1>2. /\ gens \in Seq(Gens) /\ Len(gens) = 1 /\ DOMAIN gens = {1} /\ gens[1] = Begun
    BY <1>1 DEF Init
  <1>3. Typed
    <2>1. /\ source \in Programs /\ flags \subseteq {"watch", "dry"} /\ at = "generate"
          /\ edits = 0 /\ events = 0 /\ noticed = 0 /\ debounce = FALSE
      BY DEF Init
    <2>2. Due = 0 /\ 0 \in 0..MaxEdits
      BY <2>1, WatchAssumption DEF Due
    <2>3. \A g \in DOMAIN gens : gens[g].version <= edits
      BY <1>1, <1>2, <2>1
    <2>4. Len(gens) >= 1 /\ Len(gens) + events + Due <= edits + 1
      BY <1>2, <2>1, <2>2
    <2>5. edits \in 0..MaxEdits /\ noticed \in 0..edits /\ events \in Nat
      BY <2>1, <2>2
    <2> QED BY <1>2, <2>1, <2>3, <2>4, <2>5 DEF Typed
  <1>4. FileInv
    BY <1>1, <1>2 DEF Init, FileInv, ReadOf, Alone, Written, Covered, FirstOnly, Latest, Running
  <1> QED BY <1>3, <1>4 DEF WatchInv

\* A step of a generation replaces its record and disturbs no other.
LEMMA StepOfOne ==
  ASSUME Typed, NEW g \in DOMAIN gens, NEW new \in Gens, new.version <= edits,
         gens' = [gens EXCEPT ![g] = new],
         UNCHANGED <<source, edits, flags, at, events, debounce, noticed>>
  PROVE  /\ Typed' /\ Latest' = Latest /\ DOMAIN gens' = DOMAIN gens
         /\ gens'[g] = new
         /\ \A h \in DOMAIN gens : h # g => gens'[h] = gens[h]
  <1>1. gens \in Seq(Gens) /\ Len(gens) \in Nat /\ DOMAIN gens = 1..Len(gens)
    BY DEF Typed
  <1>2. /\ gens' \in Seq(Gens) /\ Len(gens') = Len(gens) /\ DOMAIN gens' = DOMAIN gens
        /\ gens'[g] = new
        /\ \A h \in DOMAIN gens : h # g => gens'[h] = gens[h]
    BY <1>1
  <1>3. \A h \in DOMAIN gens' : gens'[h].version <= edits'
    BY <1>2 DEF Typed
  <1>4. Due' = Due
    BY DEF Due
  <1> QED BY <1>2, <1>3, <1>4 DEF Typed, Latest

\* The invariant survives such a step if what is new does.
LEMMA StepOfFile ==
  ASSUME WatchInv, NEW g \in DOMAIN gens, NEW new \in Gens, new.version <= edits,
         gens' = [gens EXCEPT ![g] = new], Running(g),
         UNCHANGED <<source, edits, flags, at, events, debounce, noticed, overlapped>>,
         ReadOf(g)', "dry" \in flags => new.at \notin {"write", "writing"},
         gens[g].at = "parse" \/ new.version = gens[g].version,
         gens[g].at = "parse" => new.version = edits /\ new.at # "parse",
         g = Latest /\ ~overlapped /\ Alone /\ Written => Written'
  PROVE  WatchInv'
  <1>1. /\ Typed' /\ Latest' = Latest /\ DOMAIN gens' = DOMAIN gens
        /\ gens'[g] = new
        /\ \A h \in DOMAIN gens : h # g => gens'[h] = gens[h]
    BY StepOfOne DEF WatchInv
  <1>2. Typed /\ FileInv
    BY DEF WatchInv
  <1>3. \A h \in DOMAIN gens' : ReadOf(h)'
    BY <1>1, <1>2 DEF FileInv, ReadOf
  <1>4. ~overlapped' => Alone' /\ Written'
    <2> SUFFICES ASSUME ~overlapped PROVE Alone' /\ Written'
      OBVIOUS
    <2>1. Alone /\ Written /\ g = Latest
      BY <1>2 DEF FileInv, Alone
    <2> QED BY <1>1, <2>1 DEF Alone, Running
  <1>5. Covered'
    <2>1. noticed <= edits /\ noticed \in Nat /\ edits \in Nat
      BY <1>2, WatchAssumption DEF Typed
    <2>2. Latest \in DOMAIN gens
      BY <1>2 DEF Typed, Latest
    <2>3. CASE g = Latest
      BY <1>1, <1>2, <2>1, <2>3 DEF FileInv, Covered
    <2>4. CASE g # Latest
      BY <1>1, <1>2, <2>2, <2>4 DEF FileInv, Covered
    <2> QED BY <2>3, <2>4
  <1>6. FirstOnly'
    BY <1>1, <1>2 DEF FileInv, FirstOnly, Latest
  <1>7. "dry" \in flags' => \A h \in DOMAIN gens' : gens'[h].at \notin {"write", "writing"}
    BY <1>1, <1>2 DEF FileInv
  <1> QED BY <1>1, <1>3, <1>4, <1>5, <1>6, <1>7 DEF WatchInv, FileInv

-----------------------------------------------------------------------------
LEMMA ReadStep ==
  ASSUME WatchInv, NEW g \in DOMAIN gens, Read(g) PROVE WatchInv'
  <1>1. PICK typed \in BOOLEAN :
          gens' = [gens EXCEPT ![g] =
            [at |-> IF ~Routed(source, typed) THEN "failed"
                    ELSE IF "dry" \in flags THEN "done" ELSE "write",
             version |-> edits, read |-> [source |-> source, typed |-> typed]]]
    BY DEF Read
  <1> DEFINE to == IF ~Routed(source, typed) THEN "failed"
                   ELSE IF "dry" \in flags THEN "done" ELSE "write"
             new == [at |-> to, version |-> edits, read |-> [source |-> source, typed |-> typed]]
  <1>2. /\ gens[g].at = "parse" /\ Running(g)
        /\ UNCHANGED <<source, edits, flags, at, events, debounce, output, noticed, overlapped>>
    BY DEF Read, Running
  <1>3. Typed /\ edits \in Nat /\ source \in Programs
    BY WatchAssumption DEF WatchInv, Typed
  <1>4. /\ to \in {"failed", "done", "write"}
        /\ "dry" \in flags => to # "write"
        /\ to = "done" => "dry" \in flags
    OBVIOUS
  <1> HIDE DEF to
  <1>5. new \in Gens /\ new.version = edits /\ new.at = to
        /\ new.read \in Reads /\ new.read.source = source
    BY <1>3, <1>4 DEF Gens, Stages, Reads
  <1>6. gens' = [gens EXCEPT ![g] = new] /\ new.version <= edits
    BY <1>1, <1>3 DEF to
  <1> HIDE DEF new
  <1>7. Latest' = Latest /\ gens'[g] = new
    BY <1>2, <1>3, <1>5, <1>6, StepOfOne
  <1>8. ReadOf(g)'
    BY <1>2, <1>5, <1>7 DEF ReadOf
  <1>9. g = Latest => Written'
    BY <1>2, <1>4, <1>5, <1>7 DEF Written
  <1> QED BY <1>2, <1>3, <1>4, <1>5, <1>6, <1>8, <1>9, StepOfFile

LEMMA OpenStep ==
  ASSUME WatchInv, NEW g \in DOMAIN gens, Open(g) PROVE WatchInv'
  <1>1. PICK to \in {"writing", "failed"} :
          /\ Step(g, to)
          /\ to = "writing" => output' = Truncated
    BY DEF Open, Truncate
  <1> DEFINE new == [gens[g] EXCEPT !.at = to]
  <1>2. /\ gens[g].at = "write" /\ Running(g)
        /\ UNCHANGED <<source, edits, flags, at, events, debounce, noticed, overlapped>>
    BY DEF Open, Running
  <1>3. /\ Typed /\ gens[g] \in Gens /\ gens[g].version <= edits /\ ReadOf(g) /\ "dry" \notin flags
    BY <1>2 DEF WatchInv, FileInv, Typed
  <1>4. /\ new \in Gens /\ new.version = gens[g].version /\ new.at = to /\ new.read = gens[g].read
    BY <1>3 DEF Gens, Stages
  <1>5. gens' = [gens EXCEPT ![g] = new]
    BY <1>1 DEF Step
  <1> HIDE DEF new
  <1>6. Latest' = Latest /\ gens'[g] = new
    BY <1>2, <1>3, <1>4, <1>5, StepOfOne
  <1>7. ReadOf(g)'
    BY <1>2, <1>3, <1>4, <1>6 DEF ReadOf
  <1>8. g = Latest => Written'
    BY <1>1, <1>4, <1>6 DEF Written
  <1> QED BY <1>2, <1>3, <1>4, <1>5, <1>7, <1>8, StepOfFile

LEMMA WriteStep ==
  ASSUME WatchInv, NEW g \in DOMAIN gens, Write(g) PROVE WatchInv'
  <1>1. PICK to \in {"done", "failed"} :
          /\ Step(g, to)
          /\ to = "done" /\ output = Truncated => output' = gens[g].read
    BY DEF Write
  <1> DEFINE new == [gens[g] EXCEPT !.at = to]
  <1>2. /\ gens[g].at = "writing" /\ Running(g)
        /\ UNCHANGED <<source, edits, flags, at, events, debounce, noticed, overlapped>>
    BY DEF Write, Running
  <1>3. /\ Typed /\ gens[g] \in Gens /\ gens[g].version <= edits /\ ReadOf(g) /\ "dry" \notin flags
    BY <1>2 DEF WatchInv, FileInv, Typed
  <1>4. /\ new \in Gens /\ new.version = gens[g].version /\ new.at = to /\ new.read = gens[g].read
    BY <1>3 DEF Gens, Stages
  <1>5. gens' = [gens EXCEPT ![g] = new]
    BY <1>1 DEF Step
  <1> HIDE DEF new
  <1>6. Latest' = Latest /\ gens'[g] = new
    BY <1>2, <1>3, <1>4, <1>5, StepOfOne
  <1>7. ReadOf(g)'
    BY <1>2, <1>3, <1>4, <1>6 DEF ReadOf
  <1>8. g = Latest /\ Written => Written'
    BY <1>1, <1>2, <1>4, <1>6 DEF Written
  <1> QED BY <1>2, <1>3, <1>4, <1>5, <1>7, <1>8, StepOfFile

-----------------------------------------------------------------------------
LEMMA GeneratedStep == WatchInv /\ Generated => WatchInv'
  <1> SUFFICES ASSUME WatchInv, Generated PROVE WatchInv'
    OBVIOUS
  <1>1. /\ at = "generate" /\ at' \in {"loop", "exit"}
        /\ UNCHANGED <<source, edits, flags, events, debounce, gens, output, noticed, overlapped>>
    BY DEF Generated
  <1>2. Typed'
    BY <1>1 DEF WatchInv, Typed, Due
  <1>3. FileInv'
    BY <1>1 DEF WatchInv, FileInv, ReadOf, Alone, Written, Covered, FirstOnly, Latest, Running
  <1> QED BY <1>2, <1>3 DEF WatchInv

LEMMA EventStep == WatchInv /\ Event => WatchInv'
  <1> SUFFICES ASSUME WatchInv, Event PROVE WatchInv'
    OBVIOUS
  <1>1. /\ at = "loop" /\ events > 0 /\ events' = events - 1 /\ debounce' = TRUE
        /\ UNCHANGED <<source, edits, flags, at, gens, output, noticed, overlapped>>
    BY DEF Event, Reset
  <1>2. Typed'
    <2>1. /\ events' \in Nat /\ Due' = 1 /\ Due \in 0..1 /\ events \in Nat
      BY <1>1 DEF WatchInv, Typed, Due
    <2>2. Len(gens) \in Nat /\ edits \in Nat /\ Len(gens) + events + Due <= edits + 1
      BY WatchAssumption DEF WatchInv, Typed
    <2>3. Len(gens) + events' + Due' <= edits + 1
      BY <1>1, <2>1, <2>2
    <2> QED BY <1>1, <2>1, <2>3 DEF WatchInv, Typed
  <1>3. FileInv'
    BY <1>1 DEF WatchInv, FileInv, ReadOf, Alone, Written, Covered, FirstOnly, Latest, Running
  <1> QED BY <1>2, <1>3 DEF WatchInv

LEMMA FireStep == WatchInv /\ Fire => WatchInv'
  <1> SUFFICES ASSUME WatchInv, Fire PROVE WatchInv'
    OBVIOUS
  <1>1. /\ at = "loop" /\ debounce /\ debounce' = FALSE
        /\ gens' = Append(gens, Begun) /\ overlapped' = ~NoneRunning
        /\ UNCHANGED <<source, edits, flags, at, events, output, noticed>>
    BY DEF Fire
  <1>2. /\ Begun \in Gens /\ Begun.at = "parse" /\ Begun.version = 0
    BY DEF Begun, Gens, Stages
  <1>3. /\ gens \in Seq(Gens) /\ Len(gens) \in Nat /\ Len(gens) >= 1 /\ DOMAIN gens = 1..Len(gens)
        /\ edits \in Nat
    BY WatchAssumption DEF WatchInv, Typed
  <1>4. /\ gens' \in Seq(Gens) /\ Len(gens') = Len(gens) + 1 /\ DOMAIN gens' = 1..Len(gens) + 1
        /\ gens'[Len(gens) + 1] = Begun
        /\ \A h \in DOMAIN gens : gens'[h] = gens[h]
    BY <1>1, <1>2, <1>3
  <1>5. \A h \in DOMAIN gens' : h \in DOMAIN gens \/ h = Len(gens) + 1
    BY <1>3, <1>4
  <1>6. Typed'
    <2>1. Due = 1 /\ Due' = 0 /\ events \in Nat /\ Len(gens) + events + Due <= edits + 1
      BY <1>1 DEF WatchInv, Typed, Due
    <2>2. Len(gens') + events' + Due' <= edits' + 1 /\ Len(gens') >= 1
      BY <1>1, <1>3, <1>4, <2>1
    <2>3. \A h \in DOMAIN gens' : gens'[h].version <= edits'
      BY <1>1, <1>2, <1>3, <1>4, <1>5 DEF WatchInv, Typed
    <2> QED BY <1>1, <1>4, <2>2, <2>3 DEF WatchInv, Typed
  <1>7. Latest' = Len(gens) + 1
    BY <1>4 DEF Latest
  <1>8. \A h \in DOMAIN gens' : ReadOf(h)'
    BY <1>1, <1>2, <1>4, <1>5 DEF WatchInv, FileInv, ReadOf
  <1>9. ~overlapped' => Alone' /\ Written'
    <2>1. ~overlapped' => Alone'
      BY <1>1, <1>4, <1>5, <1>7 DEF NoneRunning, Alone, Running
    <2>2. Written'
      BY <1>2, <1>4, <1>7 DEF Written
    <2> QED BY <2>1, <2>2
  <1>10. Covered' /\ FirstOnly'
    BY <1>1, <1>2, <1>4, <1>7 DEF Covered, FirstOnly
  <1>11. "dry" \in flags' => \A h \in DOMAIN gens' : gens'[h].at \notin {"write", "writing"}
    BY <1>1, <1>2, <1>4, <1>5 DEF WatchInv, FileInv
  <1> QED BY <1>6, <1>8, <1>9, <1>10, <1>11 DEF WatchInv, FileInv

LEMMA SignalStep == WatchInv /\ Signal => WatchInv'
  <1> SUFFICES ASSUME WatchInv, Signal PROVE WatchInv'
    OBVIOUS
  <1> DEFINE after(g) == IF Running(g) THEN [gens[g] EXCEPT !.at = "killed"] ELSE gens[g]
  <1>1. /\ at' = "exit" /\ debounce' = FALSE
        /\ gens' = [g \in DOMAIN gens |-> after(g)]
        /\ UNCHANGED <<source, edits, flags, events, output, noticed, overlapped>>
    BY DEF Signal
  <1>2. /\ gens \in Seq(Gens) /\ Len(gens) \in Nat /\ Len(gens) >= 1 /\ DOMAIN gens = 1..Len(gens)
        /\ edits \in Nat
    BY WatchAssumption DEF WatchInv, Typed
  <1>3. \A g \in DOMAIN gens :
          /\ after(g) \in Gens /\ after(g).version = gens[g].version
          /\ after(g).at = "killed" \/ after(g) = gens[g]
          /\ after(g).at \notin {"parse", "write", "writing"}
    <2> SUFFICES ASSUME NEW g \in DOMAIN gens
                 PROVE  /\ after(g) \in Gens /\ after(g).version = gens[g].version
                        /\ after(g).at = "killed" \/ after(g) = gens[g]
                        /\ after(g).at \notin {"parse", "write", "writing"}
      OBVIOUS
    <2>1. gens[g] \in Gens
      BY <1>2
    <2>2. CASE Running(g)
      BY <2>1, <2>2 DEF Gens, Stages
    <2>3. CASE ~Running(g)
      BY <2>1, <2>3 DEF Running
    <2> QED BY <2>2, <2>3
  <1> HIDE DEF after
  <1>4. /\ gens' \in Seq(Gens) /\ Len(gens') = Len(gens) /\ DOMAIN gens' = DOMAIN gens
        /\ \A g \in DOMAIN gens : gens'[g] = after(g)
    BY <1>1, <1>2, <1>3
  <1>5. Typed'
    <2>1. Due \in 0..1 /\ Due' = 0 /\ events \in Nat /\ Len(gens) + events + Due <= edits + 1
      BY <1>1 DEF WatchInv, Typed, Due
    <2>2. Len(gens') + events' + Due' <= edits' + 1 /\ Len(gens') >= 1
      BY <1>1, <1>2, <1>4, <2>1
    <2>3. \A h \in DOMAIN gens' : gens'[h].version <= edits'
      BY <1>1, <1>3, <1>4 DEF WatchInv, Typed
    <2> QED BY <1>1, <1>4, <2>2, <2>3 DEF WatchInv, Typed
  <1>6. Latest' = Latest /\ Latest \in DOMAIN gens
    BY <1>2, <1>4 DEF Latest
  <1>7. \A h \in DOMAIN gens' : ReadOf(h)'
    BY <1>1, <1>3, <1>4 DEF WatchInv, FileInv, ReadOf
  <1>8. ~overlapped' => Alone' /\ Written'
    <2>1. Alone'
      BY <1>3, <1>4 DEF Alone, Running
    <2>2. ~overlapped' => Written'
      BY <1>1, <1>3, <1>4, <1>6 DEF WatchInv, FileInv, Written
    <2> QED BY <2>1, <2>2
  <1>9. Covered' /\ FirstOnly'
    BY <1>1 DEF Covered, FirstOnly
  <1>10. "dry" \in flags' => \A h \in DOMAIN gens' : gens'[h].at \notin {"write", "writing"}
    BY <1>3, <1>4
  <1> QED BY <1>5, <1>7, <1>8, <1>9, <1>10 DEF WatchInv, FileInv

LEMMA EditStep ==
  ASSUME WatchInv, NEW p \in Drafts, Edit(p) PROVE WatchInv'
  <1>1. /\ edits < MaxEdits /\ at # "exit" /\ source' = p /\ edits' = edits + 1
        /\ UNCHANGED <<flags, at, debounce, gens, output, overlapped>>
    BY DEF Edit
  <1>2. \/ events' = events + 1 /\ noticed' = edits + 1
        \/ events' = events /\ noticed' = IF InTime THEN edits + 1 ELSE noticed
    BY DEF Edit
  <1>3. /\ edits \in Nat /\ events \in Nat /\ noticed \in 0..edits /\ MaxEdits \in Nat
        /\ gens \in Seq(Gens) /\ Len(gens) \in Nat /\ Len(gens) >= 1 /\ DOMAIN gens = 1..Len(gens)
        /\ \A g \in DOMAIN gens : gens[g].version \in Nat /\ gens[g].version <= edits
    <2>1. gens \in Seq(Gens) /\ \A g \in DOMAIN gens : gens[g] \in Gens
      BY DEF WatchInv, Typed
    <2> QED BY <2>1, WatchAssumption DEF WatchInv, Typed, Gens
  <1>4. Typed'
    <2>1. Due \in Nat /\ Due' = Due /\ Len(gens) + events + Due <= edits + 1
      BY <1>1 DEF WatchInv, Typed, Due
    <2>2. events' \in Nat /\ noticed' \in 0..edits' /\ edits' \in 0..MaxEdits
      BY <1>1, <1>2, <1>3
    <2>3. Len(gens') + events' + Due' <= edits' + 1
      BY <1>1, <1>2, <1>3, <2>1
    <2>4. source' \in Programs
      BY <1>1, WatchAssumption
    <2>5. \A g \in DOMAIN gens' : gens'[g].version <= edits'
      BY <1>1, <1>3
    <2> QED BY <1>1, <1>3, <2>2, <2>3, <2>4, <2>5 DEF WatchInv, Typed
  <1>5. \A g \in DOMAIN gens' : ReadOf(g)'
    BY <1>1, <1>3 DEF WatchInv, FileInv, ReadOf
  <1>6. ~overlapped' => Alone' /\ Written'
    BY <1>1 DEF WatchInv, FileInv, Alone, Written, Latest, Running
  <1>7. Covered'
    <2>1. CASE events' = events + 1 /\ noticed' = edits + 1
      BY <1>3, <2>1 DEF Covered
    <2>2. CASE events' = events /\ InTime
      BY <1>1, <2>2 DEF WatchInv, FileInv, FirstOnly, InTime, Covered, Latest
    <2>3. CASE events' = events /\ noticed' = noticed
      BY <1>1, <2>3 DEF WatchInv, FileInv, Covered, Latest
    <2> QED BY <1>2, <2>1, <2>2, <2>3
  <1>8. FirstOnly'
    <2>1. at = "generate" => events' = events
      BY DEF Edit
    <2> QED BY <1>1, <2>1 DEF WatchInv, FileInv, FirstOnly
  <1>9. "dry" \in flags' => \A g \in DOMAIN gens' : gens'[g].at \notin {"write", "writing"}
    BY <1>1 DEF WatchInv, FileInv
  <1> QED BY <1>4, <1>5, <1>6, <1>7, <1>8, <1>9 DEF WatchInv, FileInv

LEMMA WatchInvHolds == Spec => []WatchInv
  <1>1. Init => WatchInv
    BY InitInv
  <1>2. WatchInv /\ [Next]_vars => WatchInv'
    <2> SUFFICES ASSUME WatchInv, [Next]_vars PROVE WatchInv'
      OBVIOUS
    <2>1. ASSUME NEW g \in DOMAIN gens, Worker(g) PROVE WatchInv'
      BY <2>1, ReadStep, OpenStep, WriteStep DEF Worker
    <2>2. CASE UNCHANGED vars
      BY <2>2 DEF vars, WatchInv, Typed, FileInv, Due, ReadOf, Alone, Written, Covered,
                  FirstOnly, Latest, Running
    <2> QED BY <2>1, <2>2, GeneratedStep, EventStep, FireStep, SignalStep, EditStep
            DEF Next, Command, Exited
  <1> QED BY <1>1, <1>2, PTL DEF Spec

\* Every reachable state of the command is well typed; the regenerations are
\* at most one for each edit, and one more.
THEOREM TypeCorrect == Spec => []TypeOK
  <1>1. WatchInv => TypeOK
    BY TypedCorrect DEF WatchInv
  <1> QED BY <1>1, WatchInvHolds, PTL

\* When nothing is left to be done and the watcher missed no edit, the file is
\* what the source as it is now generates: the timer that each event resets
\* leaves a last generation that begins after the last edit was reported, and
\* if it overlapped no other it wrote over a file it had truncated itself.
THEOREM FileIsFresh == Spec => []AtRestFresh
  <1>1. WatchInv => AtRestFresh
    <2> SUFFICES ASSUME WatchInv, AtRest, noticed = edits, ~overlapped,
                        gens[Latest].at = "done", "dry" \notin flags
                 PROVE  output = [source |-> source, typed |-> gens[Latest].read.typed]
      BY DEF AtRestFresh, Latest
    <2>1. Latest \in DOMAIN gens /\ gens[Latest].version \in Nat /\ edits \in Nat
          /\ gens[Latest].version <= edits
      <3>1. Latest \in DOMAIN gens /\ gens[Latest] \in Gens
        BY DEF WatchInv, Typed, Latest
      <3> QED BY <3>1, WatchAssumption DEF WatchInv, Typed, Gens
    <2>2. gens[Latest].version = edits
      BY <2>1 DEF WatchInv, FileInv, Covered, AtRest
    <2>3. gens[Latest].read \in Reads /\ gens[Latest].read.source = source
      BY <2>1, <2>2 DEF WatchInv, FileInv, ReadOf
    <2>4. output = gens[Latest].read
      BY DEF WatchInv, FileInv, Written
    <2> QED BY <2>3, <2>4 DEF Reads
  <1> QED BY <1>1, WatchInvHolds, PTL
=============================================================================
