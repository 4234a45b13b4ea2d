---------------------------- MODULE LoggerProofs ----------------------------
(***************************************************************************)
(* Theorems about Logger, for every set of writers and number of messages: *)
(* it implements the write-behind log, the file follows the output and the *)
(* final drain is complete.                                                *)
(***************************************************************************)
EXTENDS Logger, SequenceTheorems, TLAPS

\* A message put behind a concatenation is put behind its second half.
LEMMA AppendIds ==
  \A s, t \in Seq(Ids), x \in Ids : Append(s \o t, x) = s \o Append(t, x)
<1> TAKE s, t \in Seq(Ids), x \in Ids
<1>1. Append(s \o t, x) \in Seq(Ids) /\ s \o Append(t, x) \in Seq(Ids)
  OBVIOUS
<1>2. /\ Len(s \o t) = Len(s) + Len(t) /\ Len(s) \in Nat /\ Len(t) \in Nat
      /\ Len(Append(s \o t, x)) = Len(s) + Len(t) + 1
      /\ Len(s \o Append(t, x)) = Len(s) + Len(t) + 1
  OBVIOUS
<1>3. ASSUME NEW i \in 1..(Len(s) + Len(t) + 1)
      PROVE  Append(s \o t, x)[i] = (s \o Append(t, x))[i]
  <2>1. CASE i <= Len(s)
    BY <1>2, <2>1
  <2>2. CASE i > Len(s) /\ i <= Len(s) + Len(t)
    BY <1>2, <2>2
  <2>3. CASE i = Len(s) + Len(t) + 1
    BY <1>2, <2>3
  <2> QED BY <1>2, <2>1, <2>2, <2>3
<1> QED BY <1>1, <1>2, <1>3, SeqEqual

\* Concatenation is associative.
LEMMA AssocIds ==
  \A s, t, u \in Seq(Ids) : s \o (t \o u) = (s \o t) \o u
<1> TAKE s, t, u \in Seq(Ids)
<1>1. s \o (t \o u) \in Seq(Ids) /\ (s \o t) \o u \in Seq(Ids)
  OBVIOUS
<1>2. /\ Len(s) \in Nat /\ Len(t) \in Nat /\ Len(u) \in Nat
      /\ Len(s \o (t \o u)) = Len(s) + Len(t) + Len(u)
      /\ Len((s \o t) \o u) = Len(s) + Len(t) + Len(u)
  OBVIOUS
<1>3. ASSUME NEW i \in 1..(Len(s) + Len(t) + Len(u))
      PROVE  (s \o (t \o u))[i] = ((s \o t) \o u)[i]
  <2>1. CASE i <= Len(s)
    BY <1>2, <2>1
  <2>2. CASE i > Len(s) /\ i <= Len(s) + Len(t)
    BY <1>2, <2>2
  <2>3. CASE i > Len(s) + Len(t)
    BY <1>2, <2>3
  <2> QED BY <1>2, <2>1, <2>2, <2>3
<1> QED BY <1>1, <1>2, <1>3, SeqEqual

\* The beginning of a concatenation is its first half.
LEMMA ConcatPrefix ==
  ASSUME NEW S, NEW s \in Seq(S), NEW t \in Seq(S)
  PROVE  SubSeq(s \o t, 1, Len(s)) = s
<1>1. CASE s = <<>>
  BY <1>1, ConcatEmptySeq, SubSeqEmpty
<1>2. CASE s # <<>>
  <2>1. Len(s) \in 1..Len(s) /\ 1 \in 1..Len(s)
    BY <1>2
  <2>2. SubSeq(s \o t, 1, Len(s)) = SubSeq(s, 1, Len(s))
    BY <2>1, SubSeqOfConcat1
  <2> QED BY <2>2, SubSeqFull
<1> QED BY <1>1, <1>2

-----------------------------------------------------------------------------
(***************************************************************************)
(* Types.                                                                  *)
(***************************************************************************)
LEMMA TypeInit == Init => TypeOK
<1> SUFFICES ASSUME Init PROVE TypeOK
  OBVIOUS
<1>1. wpc \in [Writers -> {"idle", "log"}] /\ \A w \in Writers : wpc[w] # "log"
  BY DEF Init
<1>2. wmsg \in [Writers -> [id : 0..MaxMsgs, level : Levels]]
  BY LoggerAssumption DEF Init, Levels, DEFAULT, FULL
<1>3. <<>> \in Seq(Ids)
  OBVIOUS
<1>4. /\ m_buffer \in Seq(Ids) /\ to_write \in Seq(Ids) /\ cout \in Seq(Ids)
      /\ file \in Seq(Ids) /\ accepted \in Seq(Ids)
  BY <1>3 DEF Init
<1>5. sent \in 0..MaxMsgs /\ due \in Nat /\ m_level \in Levels
  BY LoggerAssumption DEF Init, Levels, DEFAULT
<1>6. m_running \in BOOLEAN /\ m_initialized \in BOOLEAN /\ last \in BOOLEAN
  BY DEF Init
<1> QED BY <1>1, <1>2, <1>4, <1>5, <1>6 DEF Init, TypeOK

LEMMA TypeLogStream ==
  ASSUME TypeOK, NEW w \in Writers, NEW l \in Levels, LogStream(w, l)
  PROVE  TypeOK'
<1>1. sent + 1 \in Ids /\ sent' \in 0..MaxMsgs
  BY LoggerAssumption DEF TypeOK, LogStream, Ids
<1>2. wmsg' \in [Writers -> [id : 0..MaxMsgs, level : Levels]]
  BY <1>1, LoggerAssumption DEF TypeOK, LogStream, Ids
<1>3. wpc' \in [Writers -> {"idle", "log"}]
  BY DEF TypeOK, LogStream
<1>4. \A v \in Writers : wpc'[v] = "log" => wmsg'[v].id \in Ids
  BY <1>1 DEF TypeOK, LogStream
<1> QED BY <1>1, <1>2, <1>3, <1>4
  DEF TypeOK, LogStream, stateVars, flushVars, outVars

LEMMA TypeLog ==
  ASSUME TypeOK, NEW w \in Writers, Log(w)
  PROVE  TypeOK'
<1>1. wmsg[w].id \in Ids
  BY DEF TypeOK, Log
<1>2. m_buffer' \in Seq(Ids) /\ accepted' \in Seq(Ids)
  <2>1. m_buffer \in Seq(Ids) /\ accepted \in Seq(Ids)
    BY DEF TypeOK
  <2>2. Append(m_buffer, wmsg[w].id) \in Seq(Ids) /\ Append(accepted, wmsg[w].id) \in Seq(Ids)
    BY <1>1, <2>1
  <2> QED BY <2>1, <2>2 DEF Log
<1>3. /\ wpc' \in [Writers -> {"idle", "log"}]
      /\ \A v \in Writers : wpc'[v] = "log" => wmsg'[v].id \in Ids
  BY DEF TypeOK, Log
<1> QED BY <1>2, <1>3 DEF TypeOK, Log, stateVars, flushVars, outVars

LEMMA TypeFlusher == TypeOK /\ Flusher => TypeOK'
<1> SUFFICES ASSUME TypeOK, Flusher PROVE TypeOK'
  OBVIOUS
<1> USE DEF TypeOK, stateVars, writerVars, outVars
<1>1. CASE FLoop BY <1>1 DEF FLoop
<1>2. CASE FSwap
  <2>1. m_buffer' \in Seq(Ids) /\ to_write' \in Seq(Ids) BY <1>2 DEF FSwap
  <2> QED BY <1>2, <2>1 DEF FSwap
<1>3. CASE FDrain BY <1>3 DEF FDrain
<1>4. CASE FCout
  <2>1. cout' \in Seq(Ids) BY <1>4 DEF FCout
  <2> QED BY <1>4, <2>1 DEF FCout, AfterWrite
<1>5. CASE FFile
  <2>1. file' \in Seq(Ids) BY <1>5 DEF FFile
  <2> QED BY <1>5, <2>1 DEF FFile, AfterWrite
<1> QED BY <1>1, <1>2, <1>3, <1>4, <1>5 DEF Flusher

LEMMA TypeStep == TypeOK /\ [Next]_vars => TypeOK'
<1> SUFFICES ASSUME TypeOK, [Next]_vars PROVE TypeOK'
  OBVIOUS
<1>1. CASE InitOnce
  BY <1>1 DEF TypeOK, InitOnce, writerVars, flushVars, outVars
<1>2. CASE InitOpen
  BY <1>2 DEF TypeOK, InitOpen, writerVars, flushVars, outVars
<1>3. CASE InitThread
  BY <1>3 DEF TypeOK, InitThread, writerVars, outVars
<1>4. CASE Destroy
  <2>1. due' \in Nat BY <1>4 DEF TypeOK, Destroy
  <2> QED BY <1>4, <2>1 DEF TypeOK, Destroy, writerVars, flushVars, outVars
<1>5. CASE Join
  BY <1>5 DEF TypeOK, Join, stateVars, writerVars, flushVars, outVars
<1>6. ASSUME NEW w \in Writers, Log(w) PROVE TypeOK'
  BY <1>6, TypeLog
<1>7. ASSUME NEW w \in Writers, NEW l \in Levels, LogStream(w, l) PROVE TypeOK'
  BY <1>7, TypeLogStream
<1>8. CASE Flusher
  BY <1>8, TypeFlusher
<1>9. CASE UNCHANGED vars
  BY <1>9 DEF TypeOK, vars, stateVars, writerVars, flushVars, outVars
<1> QED BY <1>1, <1>2, <1>3, <1>4, <1>5, <1>6, <1>7, <1>8, <1>9 DEF Next, Terminated

\* Every variable of the Logger keeps its type.
THEOREM LoggerTypeCorrect == Spec => []TypeOK
<1> QED BY TypeInit, TypeStep, PTL DEF Spec

-----------------------------------------------------------------------------
(***************************************************************************)
(* The inductive invariant: where the threads are, and where each message  *)
(* is.                                                                     *)
(***************************************************************************)
Inv == TypeOK /\ Phases /\ Kept /\ Owed /\ FileFollows

LEMMA InvInit == Init => Inv
<1> SUFFICES ASSUME Init PROVE Inv
  OBVIOUS
<1>1. TypeOK BY TypeInit
<1>2. Phases BY DEF Init, Phases
<1>3. Kept BY ConcatEmptySeq DEF Init, Kept, InHand
<1>4. Owed BY DEF Init, Owed
<1>5. FileFollows BY DEF Init, FileFollows
<1> QED BY <1>1, <1>2, <1>3, <1>4, <1>5 DEF Inv

\* The steps that leave the messages alone.
LEMMA InvMain ==
  ASSUME Inv, TypeOK',
         \/ InitOnce \/ InitOpen \/ InitThread \/ Destroy \/ Join \/ UNCHANGED vars
         \/ \E w \in Writers, l \in Levels : LogStream(w, l)
  PROVE  Inv'
<1> USE DEF Inv
<1>1. Phases'
  BY DEF Phases, InitOnce, InitOpen, InitThread, Destroy, Join, LogStream, vars,
         stateVars, writerVars, flushVars, outVars, TypeOK
<1>2. UNCHANGED <<cout, file, to_write, last, m_buffer, accepted>>
  BY DEF InitOnce, InitOpen, InitThread, Destroy, Join, LogStream, vars,
         stateVars, writerVars, flushVars, outVars
<1>3. InHand' = InHand
  BY DEF InHand, InitOnce, InitOpen, InitThread, Destroy, Join, LogStream, vars,
         stateVars, writerVars, flushVars, outVars, Phases
<1>4. Kept'
  BY <1>2, <1>3 DEF Kept
<1>5. Owed'
  <2>1. CASE Destroy
    <3>1. main' = "join" /\ due' = Len(accepted) /\ ~ last
      BY <2>1 DEF Destroy, Phases
    <3>2. Len(accepted) \in Nat
      BY DEF TypeOK
    <3> QED BY <1>2, <3>1, <3>2 DEF Owed
  <2>2. CASE ~ Destroy
    <3>1. due' = due /\ (main' \in {"join", "destroyed"} => main \in {"join", "destroyed"})
      BY <2>2 DEF InitOnce, InitOpen, InitThread, Join, LogStream, vars,
                  stateVars, writerVars, flushVars, outVars
    <3> QED BY <1>2, <1>3, <3>1 DEF Owed
  <2> QED BY <2>1, <2>2
<1>6. FileFollows'
  BY <1>2 DEF FileFollows, InitOnce, InitOpen, InitThread, Destroy, Join, LogStream, vars,
              stateVars, writerVars, flushVars, outVars, Phases
<1> QED BY <1>1, <1>4, <1>5, <1>6

LEMMA InvLog ==
  ASSUME Inv, TypeOK', NEW w \in Writers, Log(w)
  PROVE  Inv'
<1> USE DEF Inv
<1>1. Phases'
  BY DEF Phases, Log, stateVars, flushVars, outVars
<1>2. UNCHANGED <<main, cout, file, to_write, last, fpc, m_file, due>> /\ InHand' = InHand
  BY DEF Log, stateVars, flushVars, outVars, InHand
<1>3. FileFollows'
  BY <1>2 DEF FileFollows
<1>4. CASE UNCHANGED <<m_buffer, accepted>>
  BY <1>1, <1>2, <1>3, <1>4 DEF Kept, Owed
<1>5. CASE ~ UNCHANGED <<m_buffer, accepted>>
  <2> DEFINE x == wmsg[w].id
  <2>1. x \in Ids /\ m_buffer' = Append(m_buffer, x) /\ accepted' = Append(accepted, x)
    BY <1>5 DEF Log, TypeOK
  <2>2. /\ cout \in Seq(Ids) /\ InHand \in Seq(Ids) /\ m_buffer \in Seq(Ids)
        /\ accepted \in Seq(Ids)
    BY DEF TypeOK, InHand
  <2>3. Len(accepted') = Len(accepted) + 1 /\ Len(accepted) \in Nat /\ due \in Nat
    BY <2>1, <2>2 DEF TypeOK
  <2> HIDE DEF x
  <2>4. Owed'
    BY <1>2, <2>3 DEF Owed
  <2>5. ASSUME ~ last PROVE accepted' = cout \o (InHand \o m_buffer')
    <3>1. accepted = cout \o (InHand \o m_buffer) BY <2>5 DEF Kept
    <3>2. InHand \o m_buffer \in Seq(Ids) BY <2>2
    <3>3. Append(cout \o (InHand \o m_buffer), x) = cout \o Append(InHand \o m_buffer, x)
      BY ONLY AppendIds, <2>1, <2>2, <3>2, Zenon
    <3>4. Append(InHand \o m_buffer, x) = InHand \o Append(m_buffer, x)
      BY ONLY AppendIds, <2>1, <2>2, Zenon
    <3> QED BY <2>1, <3>1, <3>3, <3>4
  <2>6. ASSUME last PROVE \E rest \in Seq(Ids) : accepted' = (cout \o InHand) \o rest
    <3>1. PICK r \in Seq(Ids) : accepted = (cout \o InHand) \o r BY <2>6 DEF Kept
    <3>2. cout \o InHand \in Seq(Ids) /\ Append(r, x) \in Seq(Ids) BY <2>1, <2>2
    <3>3. Append((cout \o InHand) \o r, x) = (cout \o InHand) \o Append(r, x)
      BY ONLY AppendIds, <2>1, <3>1, <3>2, Zenon
    <3> QED BY <2>1, <3>1, <3>2, <3>3
  <2>7. Kept'
    BY <1>2, <2>5, <2>6 DEF Kept
  <2> QED BY <1>1, <1>3, <2>4, <2>7
<1> QED BY <1>4, <1>5

LEMMA InvFlusher ==
  ASSUME Inv, TypeOK', Flusher
  PROVE  Inv'
<1> USE DEF Inv
<1>0. /\ cout \in Seq(Ids) /\ m_buffer \in Seq(Ids) /\ to_write \in Seq(Ids)
      /\ file \in Seq(Ids) /\ accepted \in Seq(Ids) /\ InHand \in Seq(Ids)
      /\ Len(cout) \in Nat /\ Len(to_write) \in Nat /\ Len(m_buffer) \in Nat /\ due \in Nat
  BY DEF TypeOK, InHand
<1>1. CASE FLoop
  <2>1. UNCHANGED <<main, m_buffer, to_write, last, cout, file, m_file, accepted, due>>
    BY <1>1 DEF FLoop, stateVars, outVars
  <2>2. InHand' = InHand BY <1>1 DEF FLoop, InHand
  <2>3. Phases' BY <1>1 DEF FLoop, Phases, stateVars, outVars, TypeOK
  <2>4. Kept' /\ Owed' BY <2>1, <2>2 DEF Kept, Owed
  <2>5. FileFollows' BY <1>1, <2>1 DEF FLoop, FileFollows
  <2> QED BY <2>3, <2>4, <2>5
<1>2. CASE FSwap
  <2>1. /\ UNCHANGED <<main, last, cout, file, m_file, accepted, due>>
        /\ m_buffer' = <<>> /\ ~ last /\ InHand = <<>>
    BY <1>2 DEF FSwap, stateVars, outVars, Phases, InHand
  <2>2. InHand' = m_buffer BY <1>2 DEF FSwap, InHand
  <2>3. Phases' BY <1>2 DEF FSwap, Phases, stateVars, outVars
  <2>4. accepted = cout \o (<<>> \o m_buffer) BY <2>1 DEF Kept
  <2>5. <<>> \o m_buffer = m_buffer /\ m_buffer \o <<>> = m_buffer
    BY <1>0, ConcatEmptySeq
  <2>6. Kept' BY <2>1, <2>2, <2>4, <2>5 DEF Kept
  <2>7. Owed' BY <2>1 DEF Owed
  <2>8. FileFollows' BY <1>2, <2>1 DEF FSwap, FileFollows
  <2> QED BY <2>3, <2>6, <2>7, <2>8
<1>3. CASE FDrain
  <2>1. /\ UNCHANGED <<main, m_buffer, cout, file, m_file, accepted, due>>
        /\ last' /\ ~ last /\ InHand = <<>> /\ main \in {"join", "destroyed"}
    BY <1>3 DEF FDrain, stateVars, outVars, Phases, InHand
  <2>2. InHand' = m_buffer BY <1>3 DEF FDrain, InHand
  <2>3. Phases' BY <1>3 DEF FDrain, Phases, stateVars, outVars
  <2>4. accepted = cout \o (<<>> \o m_buffer) BY <2>1 DEF Kept
  <2>5. /\ <<>> \o m_buffer = m_buffer
        /\ (cout \o m_buffer) \o <<>> = cout \o m_buffer
        /\ <<>> \in Seq(Ids)
    <3>1. cout \o m_buffer \in Seq(Ids) BY <1>0
    <3> QED BY <1>0, <3>1, ConcatEmptySeq
  <2>6. accepted' = (cout' \o InHand') \o <<>> BY <2>1, <2>2, <2>4, <2>5
  <2>7. Kept' BY <2>1, <2>5, <2>6 DEF Kept
  <2>8. Len(accepted) = Len(cout) + Len(m_buffer) BY <1>0, <2>4, <2>5
  <2>9. Owed' BY <2>1, <2>2, <2>8 DEF Owed
  <2>10. FileFollows' BY <1>3, <2>1 DEF FDrain, FileFollows
  <2> QED BY <2>3, <2>7, <2>9, <2>10
<1>4. CASE FCout
  <2>1. /\ UNCHANGED <<main, m_buffer, to_write, last, file, m_file, accepted, due>>
        /\ cout' = cout \o to_write /\ InHand = to_write /\ InHand' = <<>>
    BY <1>4 DEF FCout, stateVars, InHand, AfterWrite
  <2>2. Phases' BY <1>4 DEF FCout, Phases, stateVars, AfterWrite, TypeOK
  <2>3. /\ cout' \in Seq(Ids) /\ Len(cout') = Len(cout) + Len(to_write)
        /\ cout' \o <<>> = cout' /\ <<>> \o m_buffer = m_buffer
    <3>1. cout \o to_write \in Seq(Ids) /\ Len(cout \o to_write) = Len(cout) + Len(to_write)
      BY <1>0
    <3> QED BY <1>0, <2>1, <3>1, ConcatEmptySeq
  <2>4. cout \o (to_write \o m_buffer) = (cout \o to_write) \o m_buffer
    <3>1. cout \in Seq(Ids) /\ to_write \in Seq(Ids) /\ m_buffer \in Seq(Ids)
      BY <1>0
    <3> QED BY ONLY AssocIds, <3>1, Zenon
  <2>5. Kept' BY <2>1, <2>3, <2>4 DEF Kept
  <2>6. Owed'
    <3>1. Len(InHand') = 0 BY <2>1
    <3> QED BY <1>0, <2>1, <2>3, <3>1 DEF Owed
  <2>7. FileFollows'
    BY <1>4, <2>1 DEF FCout, FileFollows, AfterWrite, Phases, TypeOK
  <2> QED BY <2>2, <2>5, <2>6, <2>7
<1>5. CASE FFile
  <2>1. /\ UNCHANGED <<main, m_buffer, to_write, last, cout, m_file, accepted, due>>
        /\ file' = file \o to_write /\ InHand' = InHand
    BY <1>5 DEF FFile, stateVars, InHand, AfterWrite
  <2>2. Phases' BY <1>5 DEF FFile, Phases, stateVars, AfterWrite
  <2>3. Kept' /\ Owed' BY <2>1 DEF Kept, Owed
  <2>4. FileFollows' BY <1>5, <2>1 DEF FFile, FileFollows, AfterWrite, Phases
  <2> QED BY <2>2, <2>3, <2>4
<1> QED BY <1>1, <1>2, <1>3, <1>4, <1>5 DEF Flusher

LEMMA InvStep == Inv /\ [Next]_vars => Inv'
<1> SUFFICES ASSUME Inv, [Next]_vars PROVE Inv'
  OBVIOUS
<1>1. TypeOK'
  BY TypeStep DEF Inv
<1>2. CASE Flusher
  BY <1>1, <1>2, InvFlusher
<1>3. CASE \E w \in Writers : Log(w)
  BY <1>1, <1>3, InvLog
<1>4. CASE \/ InitOnce \/ InitOpen \/ InitThread \/ Destroy \/ Join \/ UNCHANGED vars
           \/ \E w \in Writers, l \in Levels : LogStream(w, l)
  BY <1>1, <1>4, InvMain
<1> QED BY <1>2, <1>3, <1>4 DEF Next, Terminated

LEMMA InvAlways == Spec => []Inv
<1> QED BY InvInit, InvStep, PTL DEF Spec

-----------------------------------------------------------------------------
\* The file is what the output shows, up to the chunk being written.
THEOREM FileFollowsOutput == Spec => []FileFollows
<1>1. Inv => FileFollows BY DEF Inv
<1> QED BY <1>1, InvAlways, PTL

\* The final drain shows all that was logged before the destructor.
THEOREM FinalDrain == Spec => []DrainComplete
<1>1. Inv => DrainComplete
  BY DEF Inv, Phases, Owed, DrainComplete, InHand, TypeOK
<1> QED BY <1>1, InvAlways, PTL

\* A step that writes shows a longer beginning of what was accepted.
LEMMA LogStep == Inv /\ Inv' /\ [Next]_vars => [Log_!WBNext]_(Log_!wbVars)
<1> SUFFICES ASSUME Inv, Inv', [Next]_vars PROVE [Log_!WBNext]_(Log_!wbVars)
  OBVIOUS
<1> USE DEF Inv
<1>1. ASSUME FCout PROVE [Log_!WBNext]_(Log_!wbVars)
  <2>0. /\ cout \in Seq(Ids) /\ to_write \in Seq(Ids) /\ m_buffer \in Seq(Ids)
        /\ cout' = cout \o to_write /\ InHand = to_write /\ UNCHANGED accepted
    BY <1>1 DEF TypeOK, FCout, InHand
  <2>1. PICK r \in Seq(Ids) : accepted = (cout \o to_write) \o r
    <3>1. CASE last BY <2>0, <3>1 DEF Kept
    <3>2. CASE ~ last
      <4>1. cout \o (to_write \o m_buffer) = (cout \o to_write) \o m_buffer
        BY ONLY AssocIds, <2>0, Zenon
      <4> QED BY <2>0, <3>2, <4>1 DEF Kept
    <3> QED BY <3>1, <3>2
  <2>2. cout' \in Seq(Ids) /\ accepted = cout' \o r BY <2>0, <2>1
  <2>3. cout' = SubSeq(accepted, 1, Len(cout')) BY <2>2, ConcatPrefix
  <2>4. Len(cout') <= Len(accepted) /\ Len(cout') \in Nat BY <2>2
  <2>5. Len(cout') >= Len(cout) /\ (Len(cout') = Len(cout) => cout' = cout)
    <3>1. Len(cout') = Len(cout) + Len(to_write) /\ Len(cout) \in Nat /\ Len(to_write) \in Nat
      BY <2>0
    <3>2. Len(to_write) = 0 => to_write = <<>> BY <2>0
    <3> QED BY <2>0, <3>1, <3>2, ConcatEmptySeq
  <2>6. CASE Len(cout') = Len(cout)
    BY <2>0, <2>5, <2>6 DEF Log_!wbVars
  <2>7. CASE Len(cout') > Len(cout)
    <3>1. Len(cout') \in (Len(cout) + 1)..Len(accepted)
      BY <2>0, <2>4, <2>7
    <3> QED BY <2>0, <2>3, <3>1 DEF Log_!WBNext, Log_!Write
  <2> QED
    <3>1. Len(cout) \in Nat BY <2>0
    <3> QED BY <2>4, <2>5, <2>6, <2>7, <3>1
<1>2. ASSUME NEW w \in Writers, Log(w) PROVE [Log_!WBNext]_(Log_!wbVars)
  <2>1. wmsg[w].id \in Ids /\ UNCHANGED cout
    BY <1>2 DEF TypeOK, Log, outVars
  <2> QED BY <1>2, <2>1 DEF Log, Log_!WBNext, Log_!Accept, Log_!wbVars
<1>3. CASE UNCHANGED <<accepted, cout>>
  BY <1>3 DEF Log_!wbVars
<1> QED
  BY <1>1, <1>2, <1>3 DEF Next, Flusher, FLoop, FSwap, FDrain, FFile, InitOnce, InitOpen,
     InitThread, Destroy, Join, LogStream, Terminated, vars, outVars

\* Writers, buffer and flush thread implement the write-behind log: what is
\* shown is always the beginning of what was logged.
THEOREM LoggerImplementsLog == Spec => ImplementsLog
<1>1. Init => Log_!WBInit
  BY DEF Init, Log_!WBInit
<1> QED BY <1>1, LogStep, InvAlways, PTL DEF Spec, ImplementsLog, Log_!WBSpec
=============================================================================
