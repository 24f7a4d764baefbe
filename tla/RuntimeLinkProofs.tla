-------------------------- MODULE RuntimeLinkProofs --------------------------
(* Theorems about RuntimeLink, for any set of calls, any blocking tools,   *)
(* any number of cancels and any faults: Inv holds, a cancel finds its     *)
(* task, and the link keeps the safety part of CallPromise; and about      *)
(* ToolRelay, which rests on it, with any lifecycle commands beside: the   *)
(* relay keeps that promise to the server.                                 *)
EXTENDS ToolRelay, SequenceTheorems, TLAPS

-----------------------------------------------------------------------------
(* Streams of frames: what is taken, added and lost.                       *)

LEMMA Taken ==
  ASSUME NEW S, NEW s \in Seq(S), s # <<>>
  PROVE  /\ Head(s) \in S /\ Head(s) = s[1] /\ Tail(s) \in Seq(S)
         /\ Len(s) \in Nat /\ 1 \in 1 .. Len(s) /\ Len(Tail(s)) = Len(s) - 1
         /\ \A i \in 1 .. Len(Tail(s)) : i + 1 \in 1 .. Len(s) /\ Tail(s)[i] = s[i + 1]
PROOF
  <1>1. Len(s) \in Nat \ {0}
    BY EmptySeq
  <1> QED
    BY <1>1, HeadTailProperties

LEMMA Added ==
  ASSUME NEW S, NEW s \in Seq(S), NEW e \in S
  PROVE  /\ Append(s, e) \in Seq(S) /\ Len(s) \in Nat
         /\ Len(Append(s, e)) = Len(s) + 1 /\ Append(s, e)[Len(s) + 1] = e
         /\ \A i \in 1 .. Len(s) : Append(s, e)[i] = s[i]
  OBVIOUS

LEMMA Lost ==
  ASSUME NEW S, NEW s \in Seq(S), NEW t \in Prefixes(s)
  PROVE  /\ t \in Seq(S) /\ Len(t) \in Nat /\ Len(s) \in Nat /\ Len(t) <= Len(s)
         /\ \A i \in 1 .. Len(t) : t[i] = s[i]
PROOF
  <1>1. PICK k \in 0 .. Len(s) : t = SubSeq(s, 1, k)
    BY DEF Prefixes
  <1>2. Len(s) \in Nat /\ k \in Int /\ \A i \in 1 .. k : s[i] \in S
    BY ElementOfSeq, LenProperties
  <1>3. /\ SubSeq(s, 1, k) \in Seq(S)
        /\ Len(SubSeq(s, 1, k)) = IF 1 <= k THEN k - 1 + 1 ELSE 0
        /\ \A i \in 1 .. k - 1 + 1 : SubSeq(s, 1, k)[i] = s[1 + i - 1]
    BY <1>2, SubSeqProperties
  <1> QED
    BY <1>1, <1>2, <1>3

LEMMA FramesAreOfCalls ==
  ASSUME TypeOK
  PROVE  /\ Len(down) \in Nat /\ \A i \in 1 .. Len(down) : down[i].call \in Calls
         /\ Len(up) \in Nat /\ \A i \in 1 .. Len(up) : up[i].call \in Calls
PROOF
  <1>1. down \in Seq(Frame) /\ up \in Seq(Reply)
    BY DEF TypeOK
  <1>2. /\ Len(down) \in Nat /\ \A i \in 1 .. Len(down) : down[i] \in Frame
        /\ Len(up) \in Nat /\ \A i \in 1 .. Len(up) : up[i] \in Reply
    BY <1>1, ElementOfSeq, LenProperties
  <1> QED
    BY <1>2 DEF Frame, Reply

-----------------------------------------------------------------------------
(* The initial state, and each action.                                     *)

LEMMA InitInv == Init => Inv
  BY LinkAssumption
  DEF Init, Inv, TypeOK, Frame, Reply, WaitingIsListed, PendingIsAwaited,
      CallersAreListed, DrainedIsDown, AskedOnce, Asks, StartedWasSent,
      ResultsAreDone, Results, Errors, AtWorkIsEntered

(* The transport is registered: nobody waits yet.                          *)
LEMMA RegisterInv ==
  ASSUME Inv, Register
  PROVE  Inv'
PROOF
  <1>1. TypeOK'
    BY LinkAssumption
    DEF Register, callers, runtime, Inv, TypeOK, Results, Errors
  <1>2. (WaitingIsListed /\ PendingIsAwaited /\ CallersAreListed /\ DrainedIsDown)'
    BY LinkAssumption
    DEF Register, callers, runtime, Inv, TypeOK, WaitingIsListed,
        PendingIsAwaited, CallersAreListed, DrainedIsDown
  <1>3. AskedOnce'
    BY LinkAssumption
    DEF Register, callers, runtime, Inv, TypeOK, AskedOnce, Asks
  <1>4. StartedWasSent'
    BY LinkAssumption
    DEF Register, callers, runtime, Inv, TypeOK, StartedWasSent
  <1>5. ResultsAreDone'
    BY LinkAssumption
    DEF Register, callers, runtime, Inv, TypeOK, ResultsAreDone, Results
  <1>6. AtWorkIsEntered'
    BY LinkAssumption
    DEF Register, callers, runtime, Inv, TypeOK, AtWorkIsEntered
  <1> QED
    BY <1>1, <1>2, <1>3, <1>4, <1>5, <1>6 DEF Inv

(* A call is entered: it was idle, so its slot is empty.                   *)
LEMMA InvokeInv ==
  ASSUME Inv, NEW c \in Calls, Invoke(c)
  PROVE  Inv'
PROOF
  <1>1. TypeOK'
    BY LinkAssumption
    DEF Invoke, callers, runtime, Inv, TypeOK, Results, Errors
  <1>2. (WaitingIsListed /\ PendingIsAwaited /\ CallersAreListed /\ DrainedIsDown)'
    BY LinkAssumption
    DEF Invoke, callers, runtime, Inv, TypeOK, WaitingIsListed,
        PendingIsAwaited, CallersAreListed, DrainedIsDown
  <1>3. AskedOnce'
    BY LinkAssumption
    DEF Invoke, callers, runtime, Inv, TypeOK, AskedOnce, Asks
  <1>4. StartedWasSent'
    BY LinkAssumption
    DEF Invoke, callers, runtime, Inv, TypeOK, StartedWasSent
  <1>5. ResultsAreDone'
    BY LinkAssumption
    DEF Invoke, callers, runtime, Inv, TypeOK, ResultsAreDone, Results
  <1>6. AtWorkIsEntered'
    BY LinkAssumption
    DEF Invoke, callers, runtime, Inv, TypeOK, AtWorkIsEntered
  <1> QED
    BY <1>1, <1>2, <1>3, <1>4, <1>5, <1>6 DEF Inv

(* A call is sent while its entry is in the map, to a reader that is going *)
(* to drain it; no frame for it is under way.                              *)
LEMMA SendInv ==
  ASSUME Inv, NEW c \in Calls, Send(c)
  PROVE  Inv'
PROOF
  <1>1. \/ /\ link = "up" /\ caller' = [caller EXCEPT ![c] = "wait"]
           /\ down' = Append(down, [type |-> "ToolCall", call |-> c])
        \/ /\ link = "down" /\ reader = "reading" /\ UNCHANGED down
           /\ caller' = [caller EXCEPT ![c] = "wait"]
        \/ /\ link = "down" /\ UNCHANGED down
           /\ caller' = [caller EXCEPT ![c] = "undo"]
    BY DEF Send, Written, Refused
  <1>2. \/ UNCHANGED down
        \/ /\ down' \in Seq(Frame) /\ Len(down) \in Nat /\ Len(down') = Len(down) + 1
           /\ down'[Len(down) + 1] = [type |-> "ToolCall", call |-> c]
           /\ \A i \in 1 .. Len(down) : down'[i] = down[i]
    <2>1. [type |-> "ToolCall", call |-> c] \in Frame /\ down \in Seq(Frame)
      BY DEF Inv, TypeOK, Frame
    <2>2. CASE down' = Append(down, [type |-> "ToolCall", call |-> c])
      <3> DEFINE e == [type |-> "ToolCall", call |-> c]
      <3>1. e \in Frame /\ down' = Append(down, e)
        BY <2>1, <2>2
      <3> HIDE DEF e
      <3>2. /\ down' \in Seq(Frame) /\ Len(down) \in Nat /\ Len(down') = Len(down) + 1
            /\ down'[Len(down) + 1] = e /\ \A i \in 1 .. Len(down) : down'[i] = down[i]
        BY <2>1, <3>1, Added
      <3> QED
        BY <3>2 DEF e
    <2> QED
      BY <1>1, <2>2
  <1>3. TypeOK'
    BY LinkAssumption, <1>1, <1>2
    DEF Send, callers, runtime, Inv, TypeOK, Results, Errors
  <1>4. (WaitingIsListed /\ PendingIsAwaited /\ CallersAreListed /\ DrainedIsDown)'
    <2>1. caller[c] = "send" /\ UNCHANGED <<answer, slot, pending, reader, link>>
      BY DEF Send
    <2>2. /\ \A d \in Calls \ {c} : caller'[d] = caller[d]
          /\ \/ caller'[c] = "undo"
             \/ caller'[c] = "wait" /\ (link = "up" \/ reader = "reading")
      BY <1>1 DEF Inv, TypeOK
    <2>3. reader # "off" /\ link = "up" => reader = "reading"
      BY DEF Inv, TypeOK, DrainedIsDown
    <2>4. reader # "off"
      BY <2>1 DEF Inv, CallersAreListed
    <2>5. WaitingIsListed' /\ PendingIsAwaited' /\ DrainedIsDown'
      BY <2>1, <2>2, <2>3, <2>4
      DEF Inv, TypeOK, WaitingIsListed, PendingIsAwaited, CallersAreListed, DrainedIsDown
    <2>6. CallersAreListed'
      BY <2>1, <2>2 DEF Inv, TypeOK, CallersAreListed
    <2> QED
      BY <2>5, <2>6
  <1>5. AskedOnce'
    <2>1. /\ caller[c] = "send" /\ UNCHANGED <<work, task>>
          /\ \A d \in Calls \ {c} : caller'[d] = caller[d]
          /\ ~ UNCHANGED down => caller'[c] = "wait"
      BY <1>1 DEF Send, runtime, Inv, TypeOK
    <2>2. /\ work[c] = "none"
          /\ \A i \in 1 .. Len(down) : Asks(i) => down[i].call \in Calls \ {c}
      BY <2>1, FramesAreOfCalls DEF Inv, AskedOnce, StartedWasSent
    <2>4. CASE UNCHANGED down
      BY <2>1, <2>2, <2>4 DEF Inv, AskedOnce, Asks
    <2>5. CASE ~ UNCHANGED down
      <3>1. \A i \in 1 .. Len(down') :
              \/ i \in 1 .. Len(down) /\ down'[i] = down[i]
              \/ i = Len(down) + 1 /\ down'[i] = [type |-> "ToolCall", call |-> c]
        BY <1>2, <2>5
      <3>2. caller'[c] = "wait"
        BY <2>1, <2>5
      <3>3. \A i \in 1 .. Len(down') : Asks(i)' =>
              caller'[down'[i].call] \in {"wait", "done"} /\ work'[down'[i].call] = "none"
        BY <2>1, <2>2, <3>1, <3>2 DEF Inv, AskedOnce, Asks
      <3>4. \A i, j \in 1 .. Len(down') :
              Asks(i)' /\ Asks(j)' /\ down'[i].call = down'[j].call => i = j
        BY <2>2, <3>1 DEF Inv, AskedOnce, Asks
      <3> QED
        BY <3>3, <3>4 DEF AskedOnce, Asks
    <2> QED
      BY <2>4, <2>5
  <1>6. StartedWasSent'
    BY <1>1 DEF Send, runtime, Inv, TypeOK, StartedWasSent
  <1>7. ResultsAreDone'
    BY LinkAssumption, <1>1, <1>2
    DEF Send, callers, runtime, Inv, TypeOK, ResultsAreDone, Results
  <1>8. AtWorkIsEntered'
    BY LinkAssumption, <1>1, <1>2
    DEF Send, callers, runtime, Inv, TypeOK, AtWorkIsEntered
  <1> QED
    BY <1>3, <1>4, <1>5, <1>6, <1>7, <1>8 DEF Inv

(* A call that was refused leaves the map.                                 *)
LEMMA UndoInv ==
  ASSUME Inv, NEW c \in Calls, Undo(c)
  PROVE  Inv'
PROOF
  <1>1. TypeOK'
    BY LinkAssumption
    DEF Undo, callers, runtime, Inv, TypeOK, Results, Errors
  <1>2. (WaitingIsListed /\ PendingIsAwaited /\ CallersAreListed /\ DrainedIsDown)'
    BY LinkAssumption
    DEF Undo, callers, runtime, Inv, TypeOK, WaitingIsListed,
        PendingIsAwaited, CallersAreListed, DrainedIsDown
  <1>3. AskedOnce'
    BY LinkAssumption
    DEF Undo, callers, runtime, Inv, TypeOK, AskedOnce, Asks
  <1>4. StartedWasSent'
    BY LinkAssumption
    DEF Undo, callers, runtime, Inv, TypeOK, StartedWasSent
  <1>5. ResultsAreDone'
    BY LinkAssumption
    DEF Undo, callers, runtime, Inv, TypeOK, ResultsAreDone, Results
  <1>6. AtWorkIsEntered'
    BY LinkAssumption
    DEF Undo, callers, runtime, Inv, TypeOK, AtWorkIsEntered
  <1> QED
    BY <1>1, <1>2, <1>3, <1>4, <1>5, <1>6 DEF Inv

(* A call returns what its slot holds: it has left the map.                *)
LEMMA ReturnInv ==
  ASSUME Inv, NEW c \in Calls, Return(c)
  PROVE  Inv'
PROOF
  <1>1. TypeOK'
    BY LinkAssumption
    DEF Return, Errors, callers, runtime, Inv, TypeOK, Results
  <1>2. (WaitingIsListed /\ PendingIsAwaited /\ CallersAreListed /\ DrainedIsDown)'
    BY LinkAssumption
    DEF Return, Errors, callers, runtime, Inv, TypeOK, WaitingIsListed,
        PendingIsAwaited, CallersAreListed, DrainedIsDown
  <1>3. AskedOnce'
    BY LinkAssumption
    DEF Return, Errors, callers, runtime, Inv, TypeOK, AskedOnce, Asks
  <1>4. StartedWasSent'
    BY LinkAssumption
    DEF Return, Errors, callers, runtime, Inv, TypeOK, StartedWasSent
  <1>5. ResultsAreDone'
    BY LinkAssumption
    DEF Return, Errors, callers, runtime, Inv, TypeOK, ResultsAreDone,
        Results
  <1>6. AtWorkIsEntered'
    BY LinkAssumption
    DEF Return, Errors, callers, runtime, Inv, TypeOK, AtWorkIsEntered
  <1> QED
    BY <1>1, <1>2, <1>3, <1>4, <1>5, <1>6 DEF Inv

(* A cancel asks for nothing, whoever counts it.                           *)
LEMMA CancelFrameInv ==
  ASSUME Inv, NEW c \in Calls, cancels' \in 0 .. MaxCancels,
         down' = Append(down, [type |-> "CancelCall", call |-> c]) \/ UNCHANGED down,
         UNCHANGED <<callers, pending, reader, link, up, runtime>>
  PROVE  Inv'
PROOF
  <1>1. \/ UNCHANGED down
        \/ /\ down' \in Seq(Frame) /\ Len(down) \in Nat /\ Len(down') = Len(down) + 1
           /\ down'[Len(down) + 1] = [type |-> "CancelCall", call |-> c]
           /\ \A i \in 1 .. Len(down) : down'[i] = down[i]
    <2>1. [type |-> "CancelCall", call |-> c] \in Frame /\ down \in Seq(Frame)
      BY DEF Inv, TypeOK, Frame
    <2>2. CASE down' = Append(down, [type |-> "CancelCall", call |-> c])
      <3> DEFINE e == [type |-> "CancelCall", call |-> c]
      <3>1. e \in Frame /\ down' = Append(down, e)
        BY <2>1, <2>2
      <3> HIDE DEF e
      <3>2. /\ down' \in Seq(Frame) /\ Len(down) \in Nat /\ Len(down') = Len(down) + 1
            /\ down'[Len(down) + 1] = e /\ \A i \in 1 .. Len(down) : down'[i] = down[i]
        BY <2>1, <3>1, Added
      <3> QED
        BY <3>2 DEF e
    <2> QED
      BY <2>2
  <1>2. TypeOK'
    BY LinkAssumption, <1>1
    DEF callers, runtime, Inv, TypeOK, Results, Errors
  <1>3. (WaitingIsListed /\ PendingIsAwaited /\ CallersAreListed /\ DrainedIsDown)'
    BY LinkAssumption, <1>1
    DEF callers, runtime, Inv, TypeOK, WaitingIsListed,
        PendingIsAwaited, CallersAreListed, DrainedIsDown
  <1>4. AskedOnce'
    <2>1. UNCHANGED <<caller, work>>
      BY DEF callers, runtime
    <2>2. \A i \in 1 .. Len(down') :
            Asks(i)' => i \in 1 .. Len(down) /\ down'[i] = down[i]
      BY <1>1 DEF Asks
    <2>3. \A i \in 1 .. Len(down') : Asks(i)' =>
             caller'[down'[i].call] \in {"wait", "done"} /\ work'[down'[i].call] = "none"
      BY <2>1, <2>2 DEF Inv, AskedOnce, Asks
    <2>4. \A i, j \in 1 .. Len(down') :
             Asks(i)' /\ Asks(j)' /\ down'[i].call = down'[j].call => i = j
      BY <2>2 DEF Inv, AskedOnce, Asks
    <2> QED
      BY <2>3, <2>4 DEF AskedOnce, Asks
  <1>5. StartedWasSent'
    BY LinkAssumption, <1>1
    DEF callers, runtime, Inv, TypeOK, StartedWasSent
  <1>6. ResultsAreDone'
    BY LinkAssumption, <1>1
    DEF callers, runtime, Inv, TypeOK, ResultsAreDone, Results
  <1>7. AtWorkIsEntered'
    BY LinkAssumption, <1>1
    DEF callers, runtime, Inv, TypeOK, AtWorkIsEntered
  <1> QED
    BY <1>2, <1>3, <1>4, <1>5, <1>6, <1>7 DEF Inv

LEMMA CancelInv ==
  ASSUME Inv, NEW c \in Calls, Cancel(c)
  PROVE  Inv'
PROOF
  <1>1. cancels' \in 0 .. MaxCancels
    BY LinkAssumption DEF Cancel, Inv, TypeOK
  <1> QED
    BY <1>1, CancelFrameInv DEF Cancel, Written, Refused

(* An answer is handed over: the call leaves the map with its slot filled. *)
LEMMA ReadResponseInv ==
  ASSUME Inv, ReadResponse
  PROVE  Inv'
PROOF
  <1>1. /\ up \in Seq(Reply) /\ up # <<>>
        /\ up' = Tail(up)
    BY DEF ReadResponse, Inv, TypeOK
  <1>2. /\ Head(up) \in Reply /\ Head(up) = up[1] /\ up' \in Seq(Reply)
        /\ Len(up) \in Nat /\ 1 \in 1 .. Len(up) /\ Len(up') = Len(up) - 1
        /\ \A i \in 1 .. Len(up') : i + 1 \in 1 .. Len(up) /\ up'[i] = up[i + 1]
    BY <1>1, Taken
  <1>3. /\ Head(up).call \in Calls
        /\ Head(up).result \in Results \cup {"cancelled"}
    BY <1>2 DEF Reply
  <1>4. TypeOK'
    BY LinkAssumption, <1>2, <1>3
    DEF ReadResponse, Reply, callers, runtime, Inv, TypeOK, Results, Errors
  <1>5. (WaitingIsListed /\ PendingIsAwaited /\ CallersAreListed /\ DrainedIsDown)'
    <2>1. /\ pending' = pending \ {Head(up).call}
          /\ \A d \in Calls \ {Head(up).call} : slot'[d] = slot[d]
          /\ slot'[Head(up).call] = IF Head(up).call \in pending
                                    THEN Head(up).result ELSE slot[Head(up).call]
          /\ UNCHANGED <<caller, answer, reader, link>>
      BY <1>3 DEF ReadResponse, Inv, TypeOK
    <2>2. Head(up).result # "none"
      BY <1>3 DEF Results
    <2>3. WaitingIsListed' /\ PendingIsAwaited' /\ DrainedIsDown'
      BY <1>3, <2>1, <2>2
      DEF Inv, TypeOK, WaitingIsListed, PendingIsAwaited, DrainedIsDown
    <2>4. CallersAreListed'
      BY <1>3, <2>1, <2>2 DEF Inv, TypeOK, PendingIsAwaited, CallersAreListed
    <2> QED
      BY <2>3, <2>4
  <1>6. AskedOnce'
    BY LinkAssumption, <1>2, <1>3
    DEF ReadResponse, Reply, callers, runtime, Inv, TypeOK, AskedOnce, Asks
  <1>7. StartedWasSent'
    BY LinkAssumption, <1>2, <1>3
    DEF ReadResponse, Reply, callers, runtime, Inv, TypeOK, StartedWasSent
  <1>8. ResultsAreDone'
    <2>1. /\ \A d \in Calls \ {Head(up).call} : slot'[d] = slot[d]
          /\ slot'[Head(up).call] \in {slot[Head(up).call], Head(up).result}
          /\ UNCHANGED <<task, work, result>>
      BY <1>3 DEF ReadResponse, runtime, Inv, TypeOK
    <2>2. Head(up).result \in Results => work[Head(up).call] = "done"
      BY <1>2 DEF Inv, ResultsAreDone
    <2>3. \A d \in Calls : slot'[d] \in Results => work'[d] = "done"
      BY <2>1, <2>2 DEF Inv, ResultsAreDone
    <2>4. \A i \in 1 .. Len(up') : up'[i].result \in Results => work'[up'[i].call] = "done"
      BY <1>2, <2>1 DEF Inv, ResultsAreDone
    <2> QED
      BY <2>1, <2>3, <2>4 DEF Inv, ResultsAreDone
  <1>9. AtWorkIsEntered'
    BY LinkAssumption, <1>2, <1>3
    DEF ReadResponse, Reply, callers, runtime, Inv, TypeOK, AtWorkIsEntered
  <1> QED
    BY <1>4, <1>5, <1>6, <1>7, <1>8, <1>9 DEF Inv

(* The reader sees the end: the link is down.                              *)
LEMMA ReaderEndsInv ==
  ASSUME Inv, ReaderEnds
  PROVE  Inv'
PROOF
  <1>1. TypeOK'
    BY LinkAssumption
    DEF ReaderEnds, callers, runtime, Inv, TypeOK, Results, Errors
  <1>2. (WaitingIsListed /\ PendingIsAwaited /\ CallersAreListed /\ DrainedIsDown)'
    BY LinkAssumption
    DEF ReaderEnds, callers, runtime, Inv, TypeOK, WaitingIsListed,
        PendingIsAwaited, CallersAreListed, DrainedIsDown
  <1>3. AskedOnce'
    BY LinkAssumption
    DEF ReaderEnds, callers, runtime, Inv, TypeOK, AskedOnce, Asks
  <1>4. StartedWasSent'
    BY LinkAssumption
    DEF ReaderEnds, callers, runtime, Inv, TypeOK, StartedWasSent
  <1>5. ResultsAreDone'
    BY LinkAssumption
    DEF ReaderEnds, callers, runtime, Inv, TypeOK, ResultsAreDone, Results
  <1>6. AtWorkIsEntered'
    BY LinkAssumption
    DEF ReaderEnds, callers, runtime, Inv, TypeOK, AtWorkIsEntered
  <1> QED
    BY <1>1, <1>2, <1>3, <1>4, <1>5, <1>6 DEF Inv

(* The drain fills the slot of everyone listed.                            *)
LEMMA DrainInv ==
  ASSUME Inv, Drain
  PROVE  Inv'
PROOF
  <1>1. TypeOK'
    BY LinkAssumption
    DEF Drain, callers, runtime, Inv, TypeOK, Results, Errors
  <1>2. (WaitingIsListed /\ PendingIsAwaited /\ CallersAreListed /\ DrainedIsDown)'
    BY LinkAssumption
    DEF Drain, callers, runtime, Inv, TypeOK, WaitingIsListed,
        PendingIsAwaited, CallersAreListed, DrainedIsDown
  <1>3. AskedOnce'
    BY LinkAssumption
    DEF Drain, callers, runtime, Inv, TypeOK, AskedOnce, Asks
  <1>4. StartedWasSent'
    BY LinkAssumption
    DEF Drain, callers, runtime, Inv, TypeOK, StartedWasSent
  <1>5. ResultsAreDone'
    BY LinkAssumption
    DEF Drain, callers, runtime, Inv, TypeOK, ResultsAreDone, Results
  <1>6. AtWorkIsEntered'
    BY LinkAssumption
    DEF Drain, callers, runtime, Inv, TypeOK, AtWorkIsEntered
  <1> QED
    BY <1>1, <1>2, <1>3, <1>4, <1>5, <1>6 DEF Inv

(* The transport is taken out: nobody is left waiting for an answer.       *)
LEMMA CloseInv ==
  ASSUME Inv, Close
  PROVE  Inv'
PROOF
  <1>1. TypeOK'
    BY LinkAssumption
    DEF Close, callers, runtime, Inv, TypeOK, Results, Errors
  <1>2. (WaitingIsListed /\ PendingIsAwaited /\ CallersAreListed /\ DrainedIsDown)'
    BY LinkAssumption
    DEF Close, callers, runtime, Inv, TypeOK, WaitingIsListed,
        PendingIsAwaited, CallersAreListed, DrainedIsDown
  <1>3. AskedOnce'
    BY LinkAssumption
    DEF Close, callers, runtime, Inv, TypeOK, AskedOnce, Asks
  <1>4. StartedWasSent'
    BY LinkAssumption
    DEF Close, callers, runtime, Inv, TypeOK, StartedWasSent
  <1>5. ResultsAreDone'
    BY LinkAssumption
    DEF Close, callers, runtime, Inv, TypeOK, ResultsAreDone, Results
  <1>6. AtWorkIsEntered'
    BY LinkAssumption
    DEF Close, callers, runtime, Inv, TypeOK, AtWorkIsEntered
  <1> QED
    BY <1>1, <1>2, <1>3, <1>4, <1>5, <1>6 DEF Inv

(* A call is spawned: its tool has not run, and no other frame asks for it. *)
LEMMA LoopToolCallInv ==
  ASSUME Inv, LoopToolCall
  PROVE  Inv'
PROOF
  <1>1. /\ down \in Seq(Frame) /\ down # <<>>
        /\ down' = Tail(down)
    BY DEF LoopToolCall, Reading, Inv, TypeOK
  <1>2. /\ Head(down) \in Frame /\ Head(down) = down[1] /\ down' \in Seq(Frame)
        /\ Len(down) \in Nat /\ 1 \in 1 .. Len(down) /\ Len(down') = Len(down) - 1
        /\ \A i \in 1 .. Len(down') :
             i + 1 \in 1 .. Len(down) /\ down'[i] = down[i + 1]
    BY <1>1, Taken
  <1>3. Head(down).call \in Calls
    BY <1>2 DEF Frame
  <1>4. /\ work[Head(down).call] = "none" /\ task[Head(down).call] = "none"
        /\ caller[Head(down).call] \in {"wait", "done"}
    BY <1>2, <1>3 DEF LoopToolCall, Reading, Inv, AskedOnce, Asks, StartedWasSent
  <1>5. TypeOK'
    BY LinkAssumption, <1>2, <1>3, <1>4
    DEF LoopToolCall, Reading, callers, runtime, Inv, TypeOK, Results, Errors
  <1>6. (WaitingIsListed /\ PendingIsAwaited /\ CallersAreListed /\ DrainedIsDown)'
    BY LinkAssumption, <1>2, <1>3, <1>4
    DEF LoopToolCall, Reading, callers, runtime, Inv, TypeOK,
        WaitingIsListed, PendingIsAwaited, CallersAreListed, DrainedIsDown
  <1>7. AskedOnce'
    BY LinkAssumption, <1>2, <1>3, <1>4
    DEF LoopToolCall, Reading, callers, runtime, Inv, TypeOK, AskedOnce, Asks
  <1>8. StartedWasSent'
    BY LinkAssumption, <1>2, <1>3, <1>4
    DEF LoopToolCall, Reading, callers, runtime, Inv, TypeOK, StartedWasSent
  <1>9. ResultsAreDone'
    BY LinkAssumption, <1>2, <1>3, <1>4
    DEF LoopToolCall, Reading, callers, runtime, Inv, TypeOK, ResultsAreDone,
        Results
  <1>10. AtWorkIsEntered'
    BY LinkAssumption, <1>2, <1>3, <1>4
    DEF LoopToolCall, Reading, callers, runtime, Inv, TypeOK, AtWorkIsEntered
  <1> QED
    BY <1>5, <1>6, <1>7, <1>8, <1>9, <1>10 DEF Inv

(* The handle of the call that was spawned is entered.                     *)
LEMMA LoopEntersInv ==
  ASSUME Inv, LoopEnters
  PROVE  Inv'
PROOF
  <1>1. TypeOK'
    BY LinkAssumption
    DEF LoopEnters, callers, runtime, Inv, TypeOK, Results, Errors
  <1>2. (WaitingIsListed /\ PendingIsAwaited /\ CallersAreListed /\ DrainedIsDown)'
    BY LinkAssumption
    DEF LoopEnters, callers, runtime, Inv, TypeOK, WaitingIsListed,
        PendingIsAwaited, CallersAreListed, DrainedIsDown
  <1>3. AskedOnce'
    BY LinkAssumption
    DEF LoopEnters, callers, runtime, Inv, TypeOK, AskedOnce, Asks
  <1>4. StartedWasSent'
    BY LinkAssumption
    DEF LoopEnters, callers, runtime, Inv, TypeOK, StartedWasSent
  <1>5. ResultsAreDone'
    BY LinkAssumption
    DEF LoopEnters, callers, runtime, Inv, TypeOK, ResultsAreDone, Results
  <1>6. AtWorkIsEntered'
    BY LinkAssumption
    DEF LoopEnters, callers, runtime, Inv, TypeOK, AtWorkIsEntered
  <1> QED
    BY <1>1, <1>2, <1>3, <1>4, <1>5, <1>6 DEF Inv

(* A cancel takes out the handle of a task that it aborts, and answers.    *)
LEMMA LoopCancelInv ==
  ASSUME Inv, LoopCancel
  PROVE  Inv'
PROOF
  <1>1. /\ down \in Seq(Frame) /\ down # <<>>
        /\ down' = Tail(down)
    BY DEF LoopCancel, Reading, Inv, TypeOK
  <1>2. /\ Head(down) \in Frame /\ Head(down) = down[1] /\ down' \in Seq(Frame)
        /\ Len(down) \in Nat /\ 1 \in 1 .. Len(down) /\ Len(down') = Len(down) - 1
        /\ \A i \in 1 .. Len(down') :
             i + 1 \in 1 .. Len(down) /\ down'[i] = down[i + 1]
    BY <1>1, Taken
  <1>3. Head(down).call \in Calls
    BY <1>2 DEF Frame
  <1>4. \/ UNCHANGED up
        \/ /\ up' \in Seq(Reply) /\ Len(up) \in Nat /\ Len(up') = Len(up) + 1
           /\ up'[Len(up) + 1] = [call |-> Head(down).call, result |-> "cancelled"]
           /\ \A i \in 1 .. Len(up) : up'[i] = up[i]
    <2>1. /\ [call |-> Head(down).call, result |-> "cancelled"] \in Reply
          /\ up \in Seq(Reply)
      BY <1>3 DEF Inv, TypeOK, Reply
    <2> QED
      BY <2>1, Added DEF LoopCancel, Responded
  <1>5. TypeOK'
    BY LinkAssumption, <1>2, <1>3, <1>4
    DEF LoopCancel, Reading, callers, runtime, Inv, TypeOK, Results, Errors
  <1>6. (WaitingIsListed /\ PendingIsAwaited /\ CallersAreListed /\ DrainedIsDown)'
    BY LinkAssumption, <1>2, <1>3, <1>4
    DEF LoopCancel, Reading, callers, runtime, Inv, TypeOK, WaitingIsListed,
        PendingIsAwaited, CallersAreListed, DrainedIsDown
  <1>7. AskedOnce'
    BY LinkAssumption, <1>2, <1>3, <1>4
    DEF LoopCancel, Reading, callers, runtime, Inv, TypeOK, AskedOnce, Asks
  <1>8. StartedWasSent'
    BY LinkAssumption, <1>2, <1>3, <1>4
    DEF LoopCancel, Reading, callers, runtime, Inv, TypeOK, StartedWasSent
  <1>9. ResultsAreDone'
    BY LinkAssumption, <1>2, <1>3, <1>4
    DEF LoopCancel, Reading, callers, runtime, Inv, TypeOK, ResultsAreDone,
        Results
  <1>10. AtWorkIsEntered'
    BY LinkAssumption, <1>2, <1>3, <1>4
    DEF LoopCancel, Reading, callers, runtime, Inv, TypeOK, AtWorkIsEntered
  <1> QED
    BY <1>5, <1>6, <1>7, <1>8, <1>9, <1>10 DEF Inv

(* The loop ends, and with it all tasks; a tool that is done stays done.   *)
LEMMA LoopEndsInv ==
  ASSUME Inv, LoopEnds
  PROVE  Inv'
PROOF
  <1>1. TypeOK'
    BY LinkAssumption
    DEF LoopEnds, TasksEnd, Killed, callers, runtime, Inv, TypeOK, Results,
        Errors
  <1>2. (WaitingIsListed /\ PendingIsAwaited /\ CallersAreListed /\ DrainedIsDown)'
    BY LinkAssumption
    DEF LoopEnds, TasksEnd, Killed, callers, runtime, Inv, TypeOK,
        WaitingIsListed, PendingIsAwaited, CallersAreListed, DrainedIsDown
  <1>3. AskedOnce'
    BY LinkAssumption
    DEF LoopEnds, TasksEnd, Killed, callers, runtime, Inv, TypeOK, AskedOnce,
        Asks
  <1>4. StartedWasSent'
    BY LinkAssumption
    DEF LoopEnds, TasksEnd, Killed, callers, runtime, Inv, TypeOK,
        StartedWasSent
  <1>5. ResultsAreDone'
    <2>1. /\ \A d \in Calls : work[d] = "done" => work'[d] = "done"
          /\ \A d \in Calls : task'[d] = "respond" => task[d] = "respond"
          /\ UNCHANGED <<slot, result>>
      BY DEF LoopEnds, TasksEnd, Killed, callers, Inv, TypeOK
    <2>2. /\ \A i \in 1 .. Len(up') : i \in 1 .. Len(up) /\ up'[i] = up[i]
          /\ \A i \in 1 .. Len(up) : up[i].call \in Calls
      BY FramesAreOfCalls DEF LoopEnds, Inv
    <2> QED
      BY <2>1, <2>2 DEF Inv, ResultsAreDone
  <1>6. AtWorkIsEntered'
    BY LinkAssumption
    DEF LoopEnds, TasksEnd, Killed, callers, runtime, Inv, TypeOK,
        AtWorkIsEntered
  <1> QED
    BY <1>1, <1>2, <1>3, <1>4, <1>5, <1>6 DEF Inv

(* A tool ends: from now on its result may be told.                        *)
LEMMA ToolEndsInv ==
  ASSUME Inv, NEW c \in Calls, ToolEnds(c)
  PROVE  Inv'
PROOF
  <1>1. TypeOK'
    <2>1. work' \in [Calls -> {"none", "running", "done", "killed"}]
      BY DEF ToolEnds, Inv, TypeOK
    <2>2. /\ \/ UNCHANGED result
             \/ \E r \in Results : result' = [result EXCEPT ![c] = r]
          /\ UNCHANGED task \/ task' = [task EXCEPT ![c] = "respond"]
      BY DEF ToolEnds
    <2>3. /\ result \in [Calls -> Results \cup {"none"}]
          /\ task \in [Calls -> {"none", "work", "respond", "forget", "over"}]
      BY DEF Inv, TypeOK
    <2>4. /\ result' \in [Calls -> Results \cup {"none"}]
          /\ task' \in [Calls -> {"none", "work", "respond", "forget", "over"}]
      BY <2>2, <2>3
    <2>5. UNCHANGED <<caller, answer, slot, pending, reader, link, down, up, loop,
                      aborted, in_flight, cancels>>
      BY DEF ToolEnds, callers
    <2> QED
      BY <2>1, <2>4, <2>5 DEF Inv, TypeOK
  <1>2. (WaitingIsListed /\ PendingIsAwaited /\ CallersAreListed /\ DrainedIsDown)'
    BY LinkAssumption
    DEF ToolEnds, callers, runtime, Inv, TypeOK, WaitingIsListed,
        PendingIsAwaited, CallersAreListed, DrainedIsDown
  <1>3. AskedOnce'
    BY LinkAssumption
    DEF ToolEnds, callers, runtime, Inv, TypeOK, AskedOnce, Asks
  <1>4. StartedWasSent'
    BY LinkAssumption
    DEF ToolEnds, callers, runtime, Inv, TypeOK, StartedWasSent
  <1>5. ResultsAreDone'
    BY LinkAssumption
    DEF ToolEnds, callers, runtime, Inv, TypeOK, ResultsAreDone, Results
  <1>6. AtWorkIsEntered'
    BY LinkAssumption
    DEF ToolEnds, callers, runtime, Inv, TypeOK, AtWorkIsEntered
  <1> QED
    BY <1>1, <1>2, <1>3, <1>4, <1>5, <1>6 DEF Inv

(* A task tells its result: its tool is done.                              *)
LEMMA RespondInv ==
  ASSUME Inv, NEW c \in Calls, Respond(c)
  PROVE  Inv'
PROOF
  <1>1. result[c] \in Results /\ work[c] = "done"
    BY DEF Respond, Inv, ResultsAreDone
  <1>2. \/ UNCHANGED up
        \/ /\ up' \in Seq(Reply) /\ Len(up) \in Nat /\ Len(up') = Len(up) + 1
           /\ up'[Len(up) + 1] = [call |-> c, result |-> result[c]]
           /\ \A i \in 1 .. Len(up) : up'[i] = up[i]
    <2>1. [call |-> c, result |-> result[c]] \in Reply /\ up \in Seq(Reply)
      BY <1>1 DEF Inv, TypeOK, Reply
    <2> QED
      BY <2>1, Added DEF Respond, Responded
  <1>3. TypeOK'
    BY LinkAssumption, <1>1, <1>2
    DEF Respond, callers, runtime, Inv, TypeOK, Results, Errors
  <1>4. (WaitingIsListed /\ PendingIsAwaited /\ CallersAreListed /\ DrainedIsDown)'
    BY LinkAssumption, <1>1, <1>2
    DEF Respond, callers, runtime, Inv, TypeOK, WaitingIsListed,
        PendingIsAwaited, CallersAreListed, DrainedIsDown
  <1>5. AskedOnce'
    BY LinkAssumption, <1>1, <1>2
    DEF Respond, callers, runtime, Inv, TypeOK, AskedOnce, Asks
  <1>6. StartedWasSent'
    BY LinkAssumption, <1>1, <1>2
    DEF Respond, callers, runtime, Inv, TypeOK, StartedWasSent
  <1>7. ResultsAreDone'
    BY LinkAssumption, <1>1, <1>2
    DEF Respond, callers, runtime, Inv, TypeOK, ResultsAreDone, Results
  <1>8. AtWorkIsEntered'
    BY LinkAssumption, <1>1, <1>2
    DEF Respond, callers, runtime, Inv, TypeOK, AtWorkIsEntered
  <1> QED
    BY <1>3, <1>4, <1>5, <1>6, <1>7, <1>8 DEF Inv

(* A task that has told its result takes its handle out.                   *)
LEMMA ForgetInv ==
  ASSUME Inv, NEW c \in Calls, Forget(c)
  PROVE  Inv'
PROOF
  <1>1. TypeOK'
    BY LinkAssumption
    DEF Forget, callers, runtime, Inv, TypeOK, Results, Errors
  <1>2. (WaitingIsListed /\ PendingIsAwaited /\ CallersAreListed /\ DrainedIsDown)'
    BY LinkAssumption
    DEF Forget, callers, runtime, Inv, TypeOK, WaitingIsListed,
        PendingIsAwaited, CallersAreListed, DrainedIsDown
  <1>3. AskedOnce'
    BY LinkAssumption
    DEF Forget, callers, runtime, Inv, TypeOK, AskedOnce, Asks
  <1>4. StartedWasSent'
    BY LinkAssumption
    DEF Forget, callers, runtime, Inv, TypeOK, StartedWasSent
  <1>5. ResultsAreDone'
    BY LinkAssumption
    DEF Forget, callers, runtime, Inv, TypeOK, ResultsAreDone, Results
  <1>6. AtWorkIsEntered'
    BY LinkAssumption
    DEF Forget, callers, runtime, Inv, TypeOK, AtWorkIsEntered
  <1> QED
    BY <1>1, <1>2, <1>3, <1>4, <1>5, <1>6 DEF Inv

(* An aborted task stops; a tool that is done stays done.                  *)
LEMMA TaskStopsInv ==
  ASSUME Inv, NEW c \in Calls, TaskStops(c)
  PROVE  Inv'
PROOF
  <1>1. TypeOK'
    BY LinkAssumption
    DEF TaskStops, Killed, callers, runtime, Inv, TypeOK, Results, Errors
  <1>2. (WaitingIsListed /\ PendingIsAwaited /\ CallersAreListed /\ DrainedIsDown)'
    BY LinkAssumption
    DEF TaskStops, Killed, callers, runtime, Inv, TypeOK, WaitingIsListed,
        PendingIsAwaited, CallersAreListed, DrainedIsDown
  <1>3. AskedOnce'
    <2>1. /\ \A d \in Calls : work'[d] = "none" <=> work[d] = "none"
          /\ UNCHANGED caller
      BY DEF TaskStops, Killed, callers, runtime, Inv, TypeOK
    <2>2. /\ Len(down') <= Len(down) /\ Len(down) \in Nat /\ Len(down') \in Nat
          /\ \A i \in 1 .. Len(down') : down'[i] = down[i]
      BY LenProperties DEF TaskStops, Inv, TypeOK
    <2>3. \A i \in 1 .. Len(down') :
             i \in 1 .. Len(down) /\ down'[i] = down[i] /\ down'[i].call \in Calls
      BY <2>2, FramesAreOfCalls DEF Inv
    <2>4. \A i \in 1 .. Len(down') : Asks(i)' =>
             caller'[down'[i].call] \in {"wait", "done"} /\ work'[down'[i].call] = "none"
      BY <2>1, <2>3 DEF Inv, AskedOnce, Asks
    <2>5. \A i, j \in 1 .. Len(down') :
             Asks(i)' /\ Asks(j)' /\ down'[i].call = down'[j].call => i = j
      BY <2>3 DEF Inv, AskedOnce, Asks
    <2> QED
      BY <2>4, <2>5 DEF AskedOnce, Asks
  <1>4. StartedWasSent'
    BY LinkAssumption
    DEF TaskStops, Killed, callers, runtime, Inv, TypeOK, StartedWasSent
  <1>5. ResultsAreDone'
    <2>1. /\ \A d \in Calls : work[d] = "done" => work'[d] = "done"
          /\ \A d \in Calls : task'[d] = "respond" => task[d] = "respond"
          /\ UNCHANGED <<slot, result>>
      BY DEF TaskStops, Killed, callers, Inv, TypeOK
    <2>2. /\ \A i \in 1 .. Len(up') : i \in 1 .. Len(up) /\ up'[i] = up[i]
          /\ \A i \in 1 .. Len(up) : up[i].call \in Calls
      BY FramesAreOfCalls DEF TaskStops, Inv
    <2> QED
      BY <2>1, <2>2 DEF Inv, ResultsAreDone
  <1>6. AtWorkIsEntered'
    BY LinkAssumption
    DEF TaskStops, Killed, callers, runtime, Inv, TypeOK, AtWorkIsEntered
  <1> QED
    BY <1>1, <1>2, <1>3, <1>4, <1>5, <1>6 DEF Inv

(* The link breaks: of each stream a part arrives.                         *)
LEMMA LinkBreaksInv ==
  ASSUME Inv, LinkBreaks
  PROVE  Inv'
PROOF
  <1>1. /\ up' \in Seq(Reply) /\ Len(up') \in Nat /\ Len(up) \in Nat
        /\ Len(up') <= Len(up) /\ \A i \in 1 .. Len(up') : up'[i] = up[i]
    <2>1. up \in Seq(Reply) /\ up' \in Prefixes(up)
      BY DEF LinkBreaks, Inv, TypeOK
    <2> QED
      BY <2>1, Lost
  <1>2. /\ down' \in Seq(Frame) /\ Len(down') \in Nat /\ Len(down) \in Nat
        /\ Len(down') <= Len(down) /\ \A i \in 1 .. Len(down') : down'[i] = down[i]
    <2>1. down \in Seq(Frame) /\ down' \in Prefixes(down)
      BY DEF LinkBreaks, Inv, TypeOK
    <2> QED
      BY <2>1, Lost
  <1>3. TypeOK'
    BY LinkAssumption, <1>1, <1>2
    DEF LinkBreaks, callers, runtime, Inv, TypeOK, Results, Errors
  <1>4. (WaitingIsListed /\ PendingIsAwaited /\ CallersAreListed /\ DrainedIsDown)'
    BY LinkAssumption, <1>1, <1>2
    DEF LinkBreaks, callers, runtime, Inv, TypeOK, WaitingIsListed,
        PendingIsAwaited, CallersAreListed, DrainedIsDown
  <1>5. AskedOnce'
    <2>1. /\ \A d \in Calls : work'[d] = "none" <=> work[d] = "none"
          /\ UNCHANGED caller
      BY DEF LinkBreaks, callers, runtime, Inv, TypeOK
    <2>2. /\ Len(down') <= Len(down) /\ Len(down) \in Nat /\ Len(down') \in Nat
          /\ \A i \in 1 .. Len(down') : down'[i] = down[i]
      BY <1>2, LenProperties DEF LinkBreaks, Inv, TypeOK
    <2>3. \A i \in 1 .. Len(down') :
             i \in 1 .. Len(down) /\ down'[i] = down[i] /\ down'[i].call \in Calls
      BY <2>2, FramesAreOfCalls DEF Inv
    <2>4. \A i \in 1 .. Len(down') : Asks(i)' =>
             caller'[down'[i].call] \in {"wait", "done"} /\ work'[down'[i].call] = "none"
      BY <2>1, <2>3 DEF Inv, AskedOnce, Asks
    <2>5. \A i, j \in 1 .. Len(down') :
             Asks(i)' /\ Asks(j)' /\ down'[i].call = down'[j].call => i = j
      BY <2>3 DEF Inv, AskedOnce, Asks
    <2> QED
      BY <2>4, <2>5 DEF AskedOnce, Asks
  <1>6. StartedWasSent'
    BY LinkAssumption, <1>1, <1>2
    DEF LinkBreaks, callers, runtime, Inv, TypeOK, StartedWasSent
  <1>7. ResultsAreDone'
    BY LinkAssumption, <1>1, <1>2
    DEF LinkBreaks, callers, runtime, Inv, TypeOK, ResultsAreDone, Results
  <1>8. AtWorkIsEntered'
    BY LinkAssumption, <1>1, <1>2
    DEF LinkBreaks, callers, runtime, Inv, TypeOK, AtWorkIsEntered
  <1> QED
    BY <1>3, <1>4, <1>5, <1>6, <1>7, <1>8 DEF Inv

(* The process dies: no frame to it is left.                               *)
LEMMA RuntimeDiesInv ==
  ASSUME Inv, RuntimeDies
  PROVE  Inv'
PROOF
  <1>1. /\ up' \in Seq(Reply) /\ Len(up') \in Nat /\ Len(up) \in Nat
        /\ Len(up') <= Len(up) /\ \A i \in 1 .. Len(up') : up'[i] = up[i]
    <2>1. up \in Seq(Reply) /\ up' \in Prefixes(up)
      BY DEF RuntimeDies, Inv, TypeOK
    <2> QED
      BY <2>1, Lost
  <1>2. down' = <<>> /\ down' \in Seq(Frame) /\ Len(down') = 0
    BY EmptySeq DEF RuntimeDies
  <1>3. TypeOK'
    BY LinkAssumption, <1>1, <1>2
    DEF RuntimeDies, TasksEnd, Killed, callers, runtime, Inv, TypeOK,
        Results, Errors
  <1>4. (WaitingIsListed /\ PendingIsAwaited /\ CallersAreListed /\ DrainedIsDown)'
    BY LinkAssumption, <1>1, <1>2
    DEF RuntimeDies, TasksEnd, Killed, callers, runtime, Inv, TypeOK,
        WaitingIsListed, PendingIsAwaited, CallersAreListed, DrainedIsDown
  <1>5. AskedOnce'
    BY LinkAssumption, <1>1, <1>2
    DEF RuntimeDies, TasksEnd, Killed, callers, runtime, Inv, TypeOK,
        AskedOnce, Asks
  <1>6. StartedWasSent'
    BY LinkAssumption, <1>1, <1>2
    DEF RuntimeDies, TasksEnd, Killed, callers, runtime, Inv, TypeOK,
        StartedWasSent
  <1>7. ResultsAreDone'
    <2>1. /\ \A d \in Calls : work[d] = "done" => work'[d] = "done"
          /\ \A d \in Calls : task'[d] = "respond" => task[d] = "respond"
          /\ UNCHANGED <<slot, result>>
      BY DEF RuntimeDies, TasksEnd, Killed, callers, Inv, TypeOK
    <2>2. /\ \A i \in 1 .. Len(up') : i \in 1 .. Len(up) /\ up'[i] = up[i]
          /\ \A i \in 1 .. Len(up) : up[i].call \in Calls
      BY <1>1, FramesAreOfCalls DEF Inv
    <2> QED
      BY <2>1, <2>2 DEF Inv, ResultsAreDone
  <1>8. AtWorkIsEntered'
    BY LinkAssumption, <1>1, <1>2
    DEF RuntimeDies, TasksEnd, Killed, callers, runtime, Inv, TypeOK,
        AtWorkIsEntered
  <1> QED
    BY <1>3, <1>4, <1>5, <1>6, <1>7, <1>8 DEF Inv

-----------------------------------------------------------------------------
(* The invariant, and what a cancel finds.                                 *)

LEMMA NextInv == Inv /\ [Next]_vars => Inv'
PROOF
  <1> SUFFICES ASSUME Inv, [Next]_vars PROVE Inv'
    OBVIOUS
  <1>1. CASE Register \/ Reader \/ Loop \/ LinkBreaks \/ RuntimeDies
    BY <1>1, RegisterInv, ReadResponseInv, ReaderEndsInv, DrainInv, CloseInv,
       LoopToolCallInv, LoopEntersInv, LoopCancelInv, LoopEndsInv,
       LinkBreaksInv, RuntimeDiesInv
    DEF Reader, Loop
  <1>2. CASE \E c \in Calls : CallerStep(c) \/ Invoke(c) \/ Cancel(c)
    BY <1>2, InvokeInv, SendInv, UndoInv, ReturnInv, CancelInv DEF CallerStep
  <1>3. CASE \E c \in Calls : ToolEnds(c) \/ TaskStep(c)
    BY <1>3, ToolEndsInv, RespondInv, ForgetInv, TaskStopsInv DEF TaskStep
  <1>4. CASE UNCHANGED vars
    BY <1>4
    DEF vars, Inv, TypeOK, WaitingIsListed, PendingIsAwaited, CallersAreListed,
        DrainedIsDown, AskedOnce, Asks, StartedWasSent, ResultsAreDone,
        AtWorkIsEntered
  <1> QED
    BY <1>1, <1>2, <1>3, <1>4 DEF Next, LinkStep

(* In every reachable state the parts of Inv hold together: whoever waits  *)
(* is listed with a reader that will look, no entry outlives its invoke, a *)
(* call crosses the link once, and no result is told of a tool that has    *)
(* not ended (invoke, the reader and the drain of socket_transport.rs, the *)
(* message loop of the runtime).                                           *)
THEOREM LinkInvariance == Spec => []Inv
PROOF
  <1> QED
    BY InitInv, NextInv, PTL DEF Spec

(* A cancel that the loop reads while the task is at work takes the task's *)
(* handle out of in_flight: the loop enters it before it reads on.         *)
THEOREM CancelFinds == Spec => CancelFindsItsTask
PROOF
  <1>1. ASSUME Inv, NEW c \in Calls, LoopCancel, Head(down).call = c,
               task[c] \in {"work", "respond"}, c \notin aborted
        PROVE  c \in aborted'
    <2>1. loop = "reading" /\ c # loop
      BY <1>1, LinkAssumption DEF LoopCancel, Reading
    <2>2. c \in in_flight
      BY <1>1, <2>1 DEF Inv, AtWorkIsEntered
    <2> QED
      BY <1>1, <2>2 DEF LoopCancel
  <1>2. Inv => [\A c \in Calls :
                  (/\ LoopCancel /\ Head(down).call = c
                   /\ task[c] \in {"work", "respond"} /\ c \notin aborted)
                     => c \in aborted']_vars
    BY <1>1
  <1> QED
    BY <1>2, LinkInvariance, PTL DEF CancelFindsItsTask

-----------------------------------------------------------------------------
(* The link implements CallPromise.                                        *)

StatusOf(c) == IF answer[c] # "none" THEN answer[c]
               ELSE IF caller[c] = "idle" THEN "idle" ELSE "asked"

(* A step that no caller sees.                                             *)
LEMMA Unseen ==
  ASSUME UNCHANGED <<caller, answer, work>>
  PROVE  UNCHANGED Promise!vars
  BY DEF Promise!vars

(* A step that leaves a caller where its invoke is still under way.        *)
LEMMA OnItsWay ==
  ASSUME NEW c \in Calls, Send(c)
  PROVE  UNCHANGED Promise!vars
PROOF
  <1>1. /\ UNCHANGED <<answer, work>>
        /\ caller[c] = "send"
        /\ \E s \in {"wait", "undo"} : caller' = [caller EXCEPT ![c] = s]
    BY DEF Send, runtime
  <1>2. \A d \in Calls : caller'[d] = "idle" <=> caller[d] = "idle"
    BY <1>1
  <1> QED
    BY <1>1, <1>2 DEF Promise!vars

LEMMA InvokeAsks ==
  ASSUME Inv, NEW c \in Calls, Invoke(c)
  PROVE  Promise!Ask(c)
PROOF
  <1>1. /\ caller \in [Calls -> {"idle", "send", "undo", "wait", "done"}]
        /\ caller[c] = "idle" /\ answer[c] = "none"
    BY DEF Inv, TypeOK, CallersAreListed, Invoke
  <1> QED
    BY <1>1 DEF Promise!Ask, Invoke, runtime

LEMMA CallIsAnswered ==
  ASSUME Inv, NEW c \in Calls, Undo(c) \/ Return(c)
  PROVE  Promise!Answer(c)
PROOF
  <1>1. /\ answer \in [Calls -> Results \cup Errors \cup {"none"}]
        /\ caller \in [Calls -> {"idle", "send", "undo", "wait", "done"}]
        /\ slot[c] \in Results \cup {"cancelled", "Disconnected", "none"}
    BY DEF Inv, TypeOK
  <1>2. caller[c] # "idle" /\ answer[c] = "none"
    BY DEF Inv, CallersAreListed, Undo, Return
  <1>3. PICK r \in Results \cup Errors :
           /\ answer' = [answer EXCEPT ![c] = r]
           /\ r \in Results => work[c] = "done"
    BY <1>1 DEF Undo, Return, Inv, ResultsAreDone, Results, Errors
  <1>4. caller' = [caller EXCEPT ![c] = "done"] /\ UNCHANGED work
    BY DEF Undo, Return, runtime
  <1>5. r # "none"
    BY DEF Results, Errors
  <1>6. [d \in Calls |-> StatusOf(d)]' = [[d \in Calls |-> StatusOf(d)] EXCEPT ![c] = r]
    BY <1>1, <1>2, <1>3, <1>4, <1>5 DEF StatusOf
  <1> QED
    BY <1>2, <1>3, <1>4, <1>6 DEF Promise!Answer, StatusOf

LEMMA CallStarts ==
  ASSUME Inv, LoopToolCall
  PROVE  \E c \in Calls : Promise!Start(c)
PROOF
  <1>1. /\ down \in Seq(Frame) /\ down # <<>>
        /\ work' = [work EXCEPT ![Head(down).call] = "running"]
        /\ UNCHANGED <<caller, answer>>
    BY DEF LoopToolCall, Reading, callers, Inv, TypeOK
  <1>2. Head(down) = down[1] /\ 1 \in 1 .. Len(down) /\ Head(down) \in Frame
    BY <1>1, Taken
  <1>3. /\ Head(down).call \in Calls /\ caller[Head(down).call] # "idle"
        /\ work[Head(down).call] = "none"
    BY <1>2 DEF Frame, LoopToolCall, Reading, Inv, AskedOnce, Asks
  <1>4. answer[Head(down).call] # "idle"
    BY <1>3 DEF Inv, TypeOK, Results, Errors
  <1>5. Promise!Start(Head(down).call)
    BY <1>1, <1>3, <1>4 DEF Promise!Start
  <1> QED
    BY <1>3, <1>5

(* Tools end, alone or with their process: those that ran, and no other.   *)
LEMMA ToolsHaveEnded ==
  ASSUME Inv, UNCHANGED <<caller, answer>>,
         work' \in [Calls -> {"none", "running", "done", "killed"}],
         \A c \in Calls : work'[c] # work[c] =>
           work[c] = "running" /\ work'[c] \in {"done", "killed"}
  PROVE  Promise!End
PROOF
  <1> DEFINE ended == {c \in Calls : work'[c] # work[c]}
             how == [c \in ended |-> work'[c]]
  <1>1. ended \in SUBSET {c \in Calls : work[c] = "running"}
    OBVIOUS
  <1>2. how \in [ended -> {"done", "killed"}]
    OBVIOUS
  <1>3. work' = [c \in Calls |-> IF c \in ended THEN how[c] ELSE work[c]]
    OBVIOUS
  <1> HIDE DEF ended, how
  <1> QED
    BY <1>1, <1>2, <1>3 DEF Promise!End

LEMMA EndsAreEnds ==
  ASSUME Inv, Inv', LoopEnds \/ RuntimeDies \/ \E c \in Calls : ToolEnds(c) \/ TaskStops(c)
  PROVE  Promise!End
PROOF
  <1>1. /\ work \in [Calls -> {"none", "running", "done", "killed"}]
        /\ work' \in [Calls -> {"none", "running", "done", "killed"}]
    BY DEF Inv, TypeOK
  <1>2. UNCHANGED <<caller, answer>>
    BY DEF LoopEnds, RuntimeDies, ToolEnds, TaskStops, callers
  <1>3. \A c \in Calls : work'[c] # work[c] =>
          work[c] = "running" /\ work'[c] \in {"done", "killed"}
    BY <1>1 DEF LoopEnds, RuntimeDies, ToolEnds, TaskStops, Killed
  <1> QED
    BY <1>1, <1>2, <1>3, ToolsHaveEnded

LEMMA PromiseInit == Init => Promise!Init
  BY DEF Init, Promise!Init

LEMMA PromiseNext == Inv /\ Inv' /\ [Next]_vars => [Promise!Next]_(Promise!vars)
PROOF
  <1> SUFFICES ASSUME Inv, Inv', [Next]_vars PROVE [Promise!Next]_(Promise!vars)
    OBVIOUS
  <1>1. CASE Register \/ Reader \/ LoopEnters \/ LoopCancel \/ LinkBreaks
    <2>1. UNCHANGED <<caller, answer, work>>
      BY <1>1
      DEF Register, Reader, ReadResponse, ReaderEnds, Drain, Close, LoopEnters,
          LoopCancel, LinkBreaks, callers, runtime
    <2> QED
      BY <2>1, Unseen
  <1>2. CASE \E c \in Calls : Cancel(c) \/ Respond(c) \/ Forget(c)
    <2>1. UNCHANGED <<caller, answer, work>>
      BY <1>2 DEF Cancel, Respond, Forget, callers, runtime
    <2> QED
      BY <2>1, Unseen
  <1>3. CASE LoopToolCall
    BY <1>3, CallStarts DEF Promise!Next
  <1>4. CASE LoopEnds \/ RuntimeDies \/ \E c \in Calls : ToolEnds(c) \/ TaskStops(c)
    BY <1>4, EndsAreEnds DEF Promise!Next
  <1>5. CASE \E c \in Calls : Send(c)
    BY <1>5, OnItsWay
  <1>6. CASE \E c \in Calls : Invoke(c)
    BY <1>6, InvokeAsks DEF Promise!Next
  <1>7. CASE \E c \in Calls : Undo(c) \/ Return(c)
    BY <1>7, CallIsAnswered DEF Promise!Next
  <1>8. CASE UNCHANGED vars
    BY <1>8, Unseen DEF vars
  <1> QED
    BY <1>1, <1>2, <1>3, <1>4, <1>5, <1>6, <1>7, <1>8
    DEF Next, LinkStep, CallerStep, TaskStep, Loop

(* The safety part of KeepsPromise: a call gets one answer, its tool       *)
(* starts once at most, and a result is told only of a tool that has ended *)
(* by itself, whatever the link and the process do.                        *)
THEOREM LinkKeepsPromise == Spec => Promise!Spec
PROOF
  <1> QED
    BY PromiseInit, PromiseNext, LinkInvariance, PTL DEF Spec, Promise!Spec

-----------------------------------------------------------------------------
(* The relay: what it adds to the link, and what its parts know of a call. *)

Orders == [type : {"ToolCall", "CancelToolCall"}, id : Calls]
            \cup [type : {"Lifecycle"}, id : Commands]
Told   == Results \cup Errors
            \cup {"CommandFailed", "Creating", "Stopping", "Failed", "Running", "Stopped"}
Events == [id : Requests, event : Told]

RelayTypes ==
  /\ asker \in [Requests -> {"idle", "send", "wait", "done"}]
  /\ reply \in [Requests -> {"none", "ok", "failed", "SendFailed", "changed", "CommandFailed"}]
  /\ mail \in [Requests -> Seq(Told)]
  /\ orders \in Seq(Orders) /\ events \in Seq(Events)
  /\ relayed \in [Calls -> {"none", "spawned", "invoking", "over"}]
  /\ served \in Commands \cup {"none"}

(* A call reaches the runtime's transport only through its request.        *)
RepliedWhenDone == \A r \in Requests : reply[r] # "none" <=> asker[r] = "done"
InvokedForAsker ==
  /\ \A c \in Calls : /\ caller[c] # "idle" => relayed[c] # "none"
                      /\ relayed[c] # "none" => asker[c] # "idle"
  /\ \A i \in 1 .. Len(orders) : orders[i].type = "ToolCall" => asker[orders[i].id] # "idle"

(* A result on its way to the server is that of a tool that has ended.     *)
AnswersAreDone == \A c \in Calls : answer[c] = "ok" => work[c] = "done"
ToldIsDone ==
  /\ \A i \in 1 .. Len(events) :
       events[i].event = "ok" /\ events[i].id \in Calls => work[events[i].id] = "done"
  /\ \A c \in Calls : \A i \in 1 .. Len(mail[c]) : mail[c][i] = "ok" => work[c] = "done"

RelayInv ==
  /\ Inv /\ RelayTypes /\ RepliedWhenDone /\ InvokedForAsker
  /\ AnswersAreDone /\ ToldIsDone

LEMMA RelayInitInv == RelayInit => RelayInv
PROOF
  <1> SUFFICES ASSUME RelayInit PROVE RelayInv
    OBVIOUS
  <1>1. Inv
    BY InitInv DEF RelayInit
  <1>2. RelayTypes /\ RepliedWhenDone
    BY DEF RelayInit, RelayTypes, RepliedWhenDone, Told
  <1>3. InvokedForAsker /\ AnswersAreDone /\ ToldIsDone
    BY DEF RelayInit, Init, InvokedForAsker, AnswersAreDone, ToldIsDone, Requests
  <1> QED
    BY <1>1, <1>2, <1>3 DEF RelayInv

(* A step of the link never takes back that a tool has ended, and answers  *)
(* a result only then: it is a step of CallPromise.                        *)
LEMMA DoneStays ==
  ASSUME Inv, Inv', [Next]_vars
  PROVE  /\ \A c \in Calls : work[c] = "done" => work'[c] = "done"
         /\ AnswersAreDone => AnswersAreDone'
PROOF
  <1>1. [Promise!Next]_(Promise!vars)
    BY PromiseNext
  <1>2. /\ work \in [Calls -> {"none", "running", "done", "killed"}]
        /\ answer \in [Calls -> Results \cup Errors \cup {"none"}]
        /\ answer' \in [Calls -> Results \cup Errors \cup {"none"}]
    BY DEF Inv, TypeOK
  <1>3. \A c \in Calls : /\ answer[c] = "ok" <=> StatusOf(c) = "ok"
                         /\ answer'[c] = "ok" <=> StatusOf(c)' = "ok"
    BY <1>2 DEF StatusOf
  <1> DEFINE st == [c \in Calls |-> StatusOf(c)]
  <1>4. \/ work' = work /\ st' = st
        \/ /\ work' = work
           /\ \E c \in Calls :
                \/ st' = [st EXCEPT ![c] = "asked"]
                \/ \E r \in Errors : st' = [st EXCEPT ![c] = r]
                \/ work[c] = "done" /\ \E r \in Results : st' = [st EXCEPT ![c] = r]
        \/ /\ st' = st
           /\ \E c \in Calls : work[c] = "none" /\ work' = [work EXCEPT ![c] = "running"]
        \/ /\ st' = st
           /\ \E ended \in SUBSET {c \in Calls : work[c] = "running"} :
                \E how \in [ended -> {"done", "killed"}] :
                  work' = [c \in Calls |-> IF c \in ended THEN how[c] ELSE work[c]]
    BY <1>1 DEF Promise!Next, Promise!vars, Promise!Ask, Promise!Answer, Promise!Start,
                Promise!End, StatusOf
  <1>5. \A c \in Calls : st[c] = StatusOf(c) /\ st'[c] = StatusOf(c)'
    OBVIOUS
  <1>6. st \in [Calls -> {st[c] : c \in Calls}] /\ DOMAIN st = Calls
    OBVIOUS
  <1> HIDE DEF st
  <1>7. \A c \in Calls : work[c] = "done" => work'[c] = "done"
    BY <1>2, <1>4
  <1>8. \A c \in Calls : st'[c] = "ok" => st[c] = "ok" \/ work'[c] = "done"
    BY <1>2, <1>4, <1>6 DEF Errors, Results
  <1> QED
    BY <1>3, <1>5, <1>7, <1>8 DEF AnswersAreDone

(* Each step of the relay is a step of the link, leaves it alone, or sends *)
(* it a cancel.                                                            *)
LEMMA LinkMoves ==
  ASSUME RelayInv, [RelayNext]_allvars
  PROVE  \/ [Next]_vars
         \/ \E c \in Calls :
              /\ UNCHANGED <<callers, pending, reader, link, up, runtime>>
              /\ cancels' \in 0 .. MaxCancels
              /\ down' = Append(down, [type |-> "CancelCall", call |-> c]) \/ UNCHANGED down
PROOF
  <1>1. CASE LinkStep
    BY <1>1 DEF Next
  <1>2. CASE \E c \in Calls : RelayInvokes(c)
    BY <1>2 DEF RelayInvokes, Next
  <1>3. ASSUME NEW c \in Calls, SendCancel(c)
        PROVE  /\ UNCHANGED <<callers, pending, reader, link, up, runtime, down>>
               /\ cancels' \in 0 .. MaxCancels
    BY <1>3, LinkAssumption DEF SendCancel, RelayInv, Inv, TypeOK
  <1>4. CASE DispatchCancel
    <2>1. Head(orders).id \in Calls
      <3>1. orders # <<>> /\ Head(orders).type = "CancelToolCall"
        BY <1>4 DEF DispatchCancel, Ordering
      <3>2. Head(orders) \in Orders
        BY <3>1, Taken DEF RelayInv, RelayTypes
      <3> QED
        BY <3>1, <3>2 DEF Orders
    <2>2. /\ UNCHANGED <<callers, pending, reader, link, up, runtime>>
          /\ cancels' \in 0 .. MaxCancels
          /\ \/ down' = Append(down, [type |-> "CancelCall", call |-> Head(orders).id])
             \/ UNCHANGED down
      BY <1>4 DEF DispatchCancel, Written, Refused, RelayInv, Inv, TypeOK
    <2> QED
      BY <2>1, <2>2
  <1>5. CASE UNCHANGED allvars
    BY <1>5 DEF allvars
  <1>6. CASE \E r \in Requests : AskFor(r) \/ AskerStep(r)
    <2>1. UNCHANGED vars
      BY <1>6 DEF AskFor, AskerStep, SendCommand, TakeResult, PassOver, TakeOutcome, Returns
    <2> QED
      BY <2>1
  <1>7. CASE \E c \in Calls : RelayAnswers(c)
    BY <1>7 DEF RelayAnswers
  <1>8. CASE ReadEvent \/ ConnectionLost
    BY <1>8 DEF ReadEvent, ConnectionLost
  <1>9. CASE DispatchToolCall \/ DispatchLifecycle \/ LifecycleEnds
    BY <1>9 DEF DispatchToolCall, DispatchLifecycle, LifecycleEnds
  <1> QED
    BY <1>1, <1>2, <1>3, <1>4, <1>5, <1>6, <1>7, <1>8, <1>9 DEF RelayNext, Dispatch

(* The link keeps its invariant under the relay, and what has ended stays. *)
LEMMA LinkKept ==
  ASSUME RelayInv, [RelayNext]_allvars
  PROVE  /\ Inv' /\ AnswersAreDone'
         /\ \A c \in Calls : work[c] = "done" => work'[c] = "done"
PROOF
  <1>1. CASE [Next]_vars
    BY <1>1, NextInv, DoneStays DEF RelayInv
  <1>2. ASSUME NEW c \in Calls, cancels' \in 0 .. MaxCancels,
               UNCHANGED <<callers, pending, reader, link, up, runtime>>,
               down' = Append(down, [type |-> "CancelCall", call |-> c]) \/ UNCHANGED down
        PROVE  /\ Inv' /\ AnswersAreDone'
               /\ \A d \in Calls : work[d] = "done" => work'[d] = "done"
    <2>1. Inv'
      BY <1>2, CancelFrameInv DEF RelayInv
    <2>2. UNCHANGED <<answer, work>>
      BY <1>2 DEF callers, runtime
    <2> QED
      BY <2>1, <2>2 DEF RelayInv, AnswersAreDone
  <1> QED
    BY <1>1, <1>2, LinkMoves

(* What the relay adds, apart from the link.                               *)
RelayParts == RelayTypes /\ RepliedWhenDone /\ InvokedForAsker /\ ToldIsDone
DoneIsKept == \A c \in Calls : work[c] = "done" => work'[c] = "done"

(* Steps of the link alone: no caller leaves idle.                         *)
LEMMA LinkStepParts ==
  ASSUME RelayInv, Inv', DoneIsKept, LinkStep, UNCHANGED relay
  PROVE  RelayParts'
PROOF
  <1>1. UNCHANGED <<asker, reply, mail, orders, events, relayed, served>>
    BY DEF relay, server
  <1>2. \A c \in Calls : caller'[c] # "idle" => caller[c] # "idle"
    <2>1. caller \in [Calls -> {"idle", "send", "undo", "wait", "done"}]
      BY DEF RelayInv, Inv, TypeOK
    <2>2. CASE \E c \in Calls : Send(c) \/ Undo(c) \/ Return(c)
      BY <2>1, <2>2 DEF Send, Undo, Return
    <2>3. CASE UNCHANGED caller
      BY <2>3
    <2> QED
      BY <2>2, <2>3
      DEF LinkStep, CallerStep, TaskStep, Reader, Loop, Register, ToolEnds, Respond, Forget,
          TaskStops, ReadResponse, ReaderEnds, Drain, Close, LoopToolCall, LoopEnters,
          LoopCancel, LoopEnds, LinkBreaks, RuntimeDies, callers
  <1>3. RelayTypes' /\ RepliedWhenDone'
    BY <1>1 DEF RelayInv, RelayTypes, RepliedWhenDone
  <1>4. InvokedForAsker'
    BY <1>1, <1>2 DEF RelayInv, InvokedForAsker
  <1>5. ToldIsDone'
    BY <1>1 DEF RelayInv, ToldIsDone, DoneIsKept
  <1> QED
    BY <1>3, <1>4, <1>5 DEF RelayParts

(* Frames for the executor, and events for the server.                     *)
LEMMA OrderedFrames ==
  ASSUME orders \in Seq(Orders), NEW frame \in Orders, Ordered(frame)
  PROVE  /\ orders' \in Seq(Orders)
         /\ \A i \in 1 .. Len(orders') :
              orders'[i] = frame \/ (i \in 1 .. Len(orders) /\ orders'[i] = orders[i])
PROOF
  <1>1. CASE orders' = Append(orders, frame)
    BY <1>1, Added
  <1> QED
    BY <1>1 DEF Ordered

LEMMA EmittedEvents ==
  ASSUME events \in Seq(Events), NEW es \in Seq(Events), Emits(es)
  PROVE  /\ events' \in Seq(Events)
         /\ \A i \in 1 .. Len(events') :
              \/ i \in 1 .. Len(events) /\ events'[i] = events[i]
              \/ \E j \in 1 .. Len(es) : events'[i] = es[j]
PROOF
  <1>1. CASE events' = events \o es
    <2>1. /\ events \o es \in Seq(Events) /\ Len(events \o es) = Len(events) + Len(es)
          /\ Len(events) \in Nat /\ Len(es) \in Nat
          /\ \A i \in 1 .. Len(events) + Len(es) :
               (events \o es)[i] = IF i <= Len(events) THEN events[i] ELSE es[i - Len(events)]
      BY ConcatProperties, LenProperties
    <2>2. ASSUME NEW i \in 1 .. Len(events) + Len(es), ~(i <= Len(events))
          PROVE  i - Len(events) \in 1 .. Len(es)
      BY <2>1, <2>2
    <2> QED
      BY <1>1, <2>1, <2>2
  <1> QED
    BY <1>1 DEF Emits

(* What is emitted of a lifecycle command, or is no result, is true.       *)
LEMMA EmittedParts ==
  ASSUME RelayInv, DoneIsKept, UNCHANGED mail, NEW es \in Seq(Events), Emits(es),
         \A j \in 1 .. Len(es) :
           es[j].event = "ok" /\ es[j].id \in Calls => work'[es[j].id] = "done"
  PROVE  events' \in Seq(Events) /\ ToldIsDone'
PROOF
  <1>1. events \in Seq(Events)
    BY DEF RelayInv, RelayTypes
  <1>2. /\ events' \in Seq(Events)
        /\ \A i \in 1 .. Len(events') :
              \/ i \in 1 .. Len(events) /\ events'[i] = events[i]
              \/ \E j \in 1 .. Len(es) : events'[i] = es[j]
    BY <1>1, EmittedEvents
  <1>3. \A i \in 1 .. Len(events') :
          events'[i].event = "ok" /\ events'[i].id \in Calls => work'[events'[i].id] = "done"
    BY <1>2 DEF RelayInv, ToldIsDone, DoneIsKept
  <1> QED
    BY <1>2, <1>3 DEF RelayInv, ToldIsDone, DoneIsKept

(* The server's end.                                                       *)
LEMMA AskForParts ==
  ASSUME RelayInv, NEW r \in Requests, AskFor(r)
  PROVE  RelayParts'
PROOF
  <1>1. /\ asker' = [asker EXCEPT ![r] = "send"] /\ asker[r] = "idle"
        /\ UNCHANGED <<reply, mail, orders, events, relayed, served, caller, work>>
    BY DEF AskFor, vars
  <1>2. RelayTypes'
    BY <1>1 DEF RelayInv, RelayTypes
  <1>3. RepliedWhenDone'
    BY <1>1 DEF RelayInv, RelayTypes, RepliedWhenDone
  <1>4. \A d \in Requests : asker[d] # "idle" => asker'[d] # "idle"
    BY <1>1 DEF RelayInv, RelayTypes
  <1>5. \A i \in 1 .. Len(orders) : orders[i].id \in Requests
    BY ElementOfSeq DEF RelayInv, RelayTypes, Orders, Requests
  <1>6. InvokedForAsker'
    BY <1>1, <1>4, <1>5 DEF RelayInv, InvokedForAsker, Requests
  <1>7. ToldIsDone'
    BY <1>1 DEF RelayInv, ToldIsDone
  <1> QED
    BY <1>2, <1>3, <1>6, <1>7 DEF RelayParts

LEMMA SendCommandParts ==
  ASSUME RelayInv, NEW r \in Requests, SendCommand(r)
  PROVE  RelayParts'
PROOF
  <1> DEFINE frame == [type |-> IF r \in Calls THEN "ToolCall" ELSE "Lifecycle", id |-> r]
  <1>1. /\ asker[r] = "send" /\ Ordered(frame)
        /\ UNCHANGED <<mail, events, relayed, served, caller, work>>
        /\ \/ asker' = [asker EXCEPT ![r] = "wait"] /\ UNCHANGED reply
           \/ asker' = [asker EXCEPT ![r] = "done"] /\ reply' = [reply EXCEPT ![r] = "SendFailed"]
    BY DEF SendCommand, vars
  <1>2. frame \in Orders /\ frame.id = r
    BY DEF Orders, Requests
  <1> HIDE DEF frame
  <1>3. /\ orders' \in Seq(Orders)
        /\ \A i \in 1 .. Len(orders') :
              orders'[i] = frame \/ (i \in 1 .. Len(orders) /\ orders'[i] = orders[i])
    BY <1>1, <1>2, OrderedFrames DEF RelayInv, RelayTypes
  <1>4. RelayTypes'
    BY <1>1, <1>3 DEF RelayInv, RelayTypes
  <1>5. RepliedWhenDone'
    BY <1>1 DEF RelayInv, RelayTypes, RepliedWhenDone
  <1>6. asker'[r] # "idle" /\ \A d \in Requests : asker[d] # "idle" => asker'[d] # "idle"
    BY <1>1 DEF RelayInv, RelayTypes
  <1>7. \A i \in 1 .. Len(orders) : orders[i].id \in Requests
    BY ElementOfSeq DEF RelayInv, RelayTypes, Orders, Requests
  <1>8. InvokedForAsker'
    BY <1>1, <1>2, <1>3, <1>6, <1>7 DEF RelayInv, InvokedForAsker, Requests
  <1>9. ToldIsDone'
    BY <1>1 DEF RelayInv, ToldIsDone
  <1> QED
    BY <1>4, <1>5, <1>8, <1>9 DEF RelayParts

LEMMA SendCancelParts ==
  ASSUME RelayInv, NEW c \in Calls, SendCancel(c)
  PROVE  RelayParts'
PROOF
  <1> DEFINE frame == [type |-> "CancelToolCall", id |-> c]
  <1>1. /\ Ordered(frame)
        /\ UNCHANGED <<asker, reply, mail, events, relayed, served, caller, work>>
    BY DEF SendCancel, server, callers, runtime
  <1>2. frame \in Orders /\ frame.type # "ToolCall"
    BY DEF Orders
  <1> HIDE DEF frame
  <1>3. /\ orders' \in Seq(Orders)
        /\ \A i \in 1 .. Len(orders') :
              orders'[i] = frame \/ (i \in 1 .. Len(orders) /\ orders'[i] = orders[i])
    BY <1>1, <1>2, OrderedFrames DEF RelayInv, RelayTypes
  <1>4. RelayTypes' /\ RepliedWhenDone'
    BY <1>1, <1>3 DEF RelayInv, RelayTypes, RepliedWhenDone
  <1>5. InvokedForAsker'
    BY <1>1, <1>2, <1>3 DEF RelayInv, InvokedForAsker
  <1>6. ToldIsDone'
    BY <1>1 DEF RelayInv, ToldIsDone
  <1> QED
    BY <1>4, <1>5, <1>6 DEF RelayParts

LEMMA ReadEventParts ==
  ASSUME RelayInv, ReadEvent
  PROVE  RelayParts'
PROOF
  <1> DEFINE r == Head(events).id
             e == Head(events).event
  <1>1. /\ events \in Seq(Events) /\ events # <<>> /\ events' = Tail(events)
        /\ \/ UNCHANGED mail
           \/ mail' = [mail EXCEPT ![r] = Append(@, e)]
        /\ mail \in [Requests -> Seq(Told)]
        /\ UNCHANGED <<asker, reply, orders, relayed, served, caller, work>>
    BY DEF ReadEvent, vars, RelayInv, RelayTypes
  <1>2. /\ events[1] \in Events /\ events[1] = Head(events) /\ 1 \in 1 .. Len(events)
        /\ events' \in Seq(Events)
        /\ \A i \in 1 .. Len(events') : i + 1 \in 1 .. Len(events) /\ events'[i] = events[i + 1]
    BY <1>1, Taken
  <1>3. r \in Requests /\ e \in Told /\ (e = "ok" /\ r \in Calls => work[r] = "done")
    BY <1>2 DEF Events, RelayInv, ToldIsDone
  <1> HIDE DEF r, e
  <1>4. /\ mail' \in [Requests -> Seq(Told)]
        /\ \A c \in Calls : \A i \in 1 .. Len(mail'[c]) :
              \/ i \in 1 .. Len(mail[c]) /\ mail'[c][i] = mail[c][i]
              \/ c = r /\ mail'[c][i] = e
    <2>1. CASE UNCHANGED mail
      BY <1>1, <2>1
    <2>2. CASE mail' = [mail EXCEPT ![r] = Append(@, e)]
      <3>1. mail[r] \in Seq(Told)
        BY <1>1, <1>3
      <3>2. /\ Append(mail[r], e) \in Seq(Told) /\ Len(Append(mail[r], e)) = Len(mail[r]) + 1
            /\ Len(mail[r]) \in Nat /\ Append(mail[r], e)[Len(mail[r]) + 1] = e
            /\ \A i \in 1 .. Len(mail[r]) : Append(mail[r], e)[i] = mail[r][i]
        BY <1>3, <3>1, Added
      <3>3. mail'[r] = Append(mail[r], e) /\ \A c \in Requests : c # r => mail'[c] = mail[c]
        BY <1>1, <1>3, <2>2
      <3>4. \A i \in 1 .. Len(mail'[r]) :
              \/ i \in 1 .. Len(mail[r]) /\ mail'[r][i] = mail[r][i]
              \/ mail'[r][i] = e
        BY <3>2, <3>3
      <3> QED
        BY <1>1, <1>3, <2>2, <3>2, <3>3, <3>4 DEF Requests
    <2> QED
      BY <1>1, <2>1, <2>2
  <1>5. RelayTypes' /\ RepliedWhenDone'
    BY <1>1, <1>2, <1>4 DEF RelayInv, RelayTypes, RepliedWhenDone
  <1>6. InvokedForAsker'
    BY <1>1 DEF RelayInv, InvokedForAsker
  <1>7. ToldIsDone'
    <2>1. \A i \in 1 .. Len(events') :
            events'[i].event = "ok" /\ events'[i].id \in Calls => work'[events'[i].id] = "done"
      BY <1>1, <1>2 DEF RelayInv, ToldIsDone
    <2>2. \A c \in Calls : \A i \in 1 .. Len(mail'[c]) :
            mail'[c][i] = "ok" => work'[c] = "done"
      BY <1>1, <1>3, <1>4 DEF RelayInv, ToldIsDone
    <2> QED
      BY <2>1, <2>2 DEF ToldIsDone
  <1> QED
    BY <1>5, <1>6, <1>7 DEF RelayParts

LEMMA ReturnsParts ==
  ASSUME RelayInv, NEW r \in Requests, asker[r] = "wait",
         NEW v \in {"ok", "failed", "changed", "CommandFailed"}, Returns(r, v)
  PROVE  RelayParts'
PROOF
  <1>1. /\ asker' = [asker EXCEPT ![r] = "done"] /\ reply' = [reply EXCEPT ![r] = v]
        /\ mail' = [mail EXCEPT ![r] = <<>>]
        /\ UNCHANGED <<orders, events, relayed, served, caller, work>>
    BY DEF Returns, vars
  <1>2. RelayTypes' /\ RepliedWhenDone'
    BY <1>1 DEF RelayInv, RelayTypes, RepliedWhenDone
  <1>3. \A d \in Requests : asker[d] # "idle" => asker'[d] # "idle"
    BY <1>1 DEF RelayInv, RelayTypes
  <1>4. \A i \in 1 .. Len(orders) : orders[i].id \in Requests
    BY ElementOfSeq DEF RelayInv, RelayTypes, Orders, Requests
  <1>5. InvokedForAsker'
    BY <1>1, <1>3, <1>4 DEF RelayInv, InvokedForAsker, Requests
  <1>6. \A c \in Calls : mail'[c] = mail[c] \/ mail'[c] = <<>>
    BY <1>1 DEF RelayInv, RelayTypes, Requests
  <1>7. ToldIsDone'
    <2>1. \A c \in Calls : \A i \in 1 .. Len(mail'[c]) : mail'[c][i] = "ok" => work[c] = "done"
      <3> TAKE c \in Calls
      <3>1. CASE mail'[c] = mail[c]
        BY <3>1 DEF RelayInv, ToldIsDone
      <3>2. CASE mail'[c] = <<>>
        BY <3>2
      <3> QED
        BY <1>6, <3>1, <3>2
    <2> QED
      BY <1>1, <2>1 DEF RelayInv, ToldIsDone
  <1> QED
    BY <1>2, <1>5, <1>7 DEF RelayParts

LEMMA PassOverParts ==
  ASSUME RelayInv, NEW r \in Requests, PassOver(r)
  PROVE  RelayParts'
PROOF
  <1>1. /\ mail[r] # <<>> /\ mail' = [mail EXCEPT ![r] = Tail(@)]
        /\ UNCHANGED <<asker, reply, orders, events, relayed, served, caller, work>>
        /\ mail \in [Requests -> Seq(Told)]
    BY DEF PassOver, Receives, vars, RelayInv, RelayTypes
  <1>2. /\ Tail(mail[r]) \in Seq(Told)
        /\ \A i \in 1 .. Len(Tail(mail[r])) :
             i + 1 \in 1 .. Len(mail[r]) /\ Tail(mail[r])[i] = mail[r][i + 1]
    <2>1. mail[r] \in Seq(Told)
      BY <1>1
    <2> QED
      BY <1>1, <2>1, Taken
  <1>3. mail'[r] = Tail(mail[r]) /\ \A c \in Requests : c # r => mail'[c] = mail[c]
    BY <1>1
  <1>4. RelayTypes' /\ RepliedWhenDone' /\ InvokedForAsker'
    BY <1>1, <1>2 DEF RelayInv, RelayTypes, RepliedWhenDone, InvokedForAsker
  <1>5. \A c \in Calls : \A i \in 1 .. Len(mail'[c]) : mail'[c][i] = "ok" => work[c] = "done"
    <2> TAKE c \in Calls
    <2>1. CASE c = r
      <3>1. \A i \in 1 .. Len(mail[r]) : mail[r][i] = "ok" => work[r] = "done"
        BY <2>1 DEF RelayInv, ToldIsDone
      <3>2. \A i \in 1 .. Len(mail'[r]) :
              i + 1 \in 1 .. Len(mail[r]) /\ mail'[r][i] = mail[r][i + 1]
        BY <1>2, <1>3
      <3> QED
        BY <2>1, <3>1, <3>2
    <2>2. CASE c # r
      BY <1>3, <2>2 DEF RelayInv, ToldIsDone, Requests
    <2> QED
      BY <2>1, <2>2
  <1>6. ToldIsDone'
    BY <1>1, <1>5 DEF RelayInv, ToldIsDone
  <1> QED
    BY <1>4, <1>6 DEF RelayParts

(* The executor's end.                                                     *)
LEMMA OrderTaken ==
  ASSUME RelayInv, NEW type, Ordering(type), orders' = Tail(orders)
  PROVE  /\ Head(orders) \in Orders /\ orders' \in Seq(Orders)
         /\ type = "ToolCall" => Head(orders).id \in Calls /\ asker[Head(orders).id] # "idle"
         /\ type = "Lifecycle" => Head(orders).id \in Commands
         /\ \A i \in 1 .. Len(orders') : i + 1 \in 1 .. Len(orders) /\ orders'[i] = orders[i + 1]
PROOF
  <1>1. /\ orders \in Seq(Orders) /\ orders # <<>> /\ Head(orders).type = type
    BY DEF RelayInv, RelayTypes, Ordering
  <1>2. /\ Head(orders) \in Orders /\ Head(orders) = orders[1] /\ 1 \in 1 .. Len(orders)
        /\ Tail(orders) \in Seq(Orders) /\ orders' = Tail(orders)
        /\ \A i \in 1 .. Len(Tail(orders)) :
             i + 1 \in 1 .. Len(orders) /\ Tail(orders)[i] = orders[i + 1]
    BY <1>1, Taken
  <1> QED
    BY <1>1, <1>2 DEF Orders, RelayInv, InvokedForAsker

LEMMA DispatchToolCallParts ==
  ASSUME RelayInv, DoneIsKept, DispatchToolCall
  PROVE  RelayParts'
PROOF
  <1> DEFINE c == Head(orders).id
  <1>1. /\ Ordering("ToolCall") /\ orders' = Tail(orders)
        /\ UNCHANGED <<asker, reply, mail, served, caller, work>>
        /\ \/ relayed' = [relayed EXCEPT ![c] = "spawned"] /\ UNCHANGED events
           \/ Emits(<<Event(c, "CommandFailed")>>) /\ UNCHANGED relayed
    BY DEF DispatchToolCall, vars, server
  <1>2. /\ c \in Calls /\ asker[c] # "idle" /\ orders' \in Seq(Orders)
        /\ \A i \in 1 .. Len(orders') : i + 1 \in 1 .. Len(orders) /\ orders'[i] = orders[i + 1]
    BY <1>1, OrderTaken
  <1> HIDE DEF c
  <1>3. events' \in Seq(Events) /\ ToldIsDone'
    <2>1. CASE UNCHANGED events
      BY <1>1, <2>1 DEF RelayInv, RelayTypes, ToldIsDone
    <2>2. CASE Emits(<<Event(c, "CommandFailed")>>)
      <3>1. Event(c, "CommandFailed") \in Events /\ Event(c, "CommandFailed").event # "ok"
        BY <1>2 DEF Event, Events, Requests, Told
      <3> DEFINE es == <<Event(c, "CommandFailed")>>
      <3>2. es \in Seq(Events) /\ \A j \in 1 .. Len(es) : es[j].event # "ok"
        BY <3>1
      <3> HIDE DEF es
      <3>3. Emits(es)
        BY <2>2 DEF es
      <3> QED
        BY <1>1, <3>2, <3>3, EmittedParts
    <2> QED
      BY <1>1, <2>1, <2>2
  <1>4. RelayTypes' /\ RepliedWhenDone'
    BY <1>1, <1>2, <1>3 DEF RelayInv, RelayTypes, RepliedWhenDone
  <1>5. \A d \in Calls : /\ relayed[d] # "none" => relayed'[d] # "none"
                         /\ relayed'[d] # "none" => relayed[d] # "none" \/ d = c
    BY <1>1 DEF RelayInv, RelayTypes
  <1>6. InvokedForAsker'
    BY <1>1, <1>2, <1>5 DEF RelayInv, InvokedForAsker
  <1> QED
    BY <1>3, <1>4, <1>6 DEF RelayParts

LEMMA RelayInvokesParts ==
  ASSUME RelayInv, NEW c \in Calls, RelayInvokes(c)
  PROVE  RelayParts'
PROOF
  <1>1. /\ relayed[c] = "spawned" /\ relayed' = [relayed EXCEPT ![c] = "invoking"]
        /\ caller' = [caller EXCEPT ![c] = "send"]
        /\ UNCHANGED <<asker, reply, mail, orders, events, served, work>>
    BY DEF RelayInvokes, Invoke, server, runtime
  <1>2. caller \in [Calls -> {"idle", "send", "undo", "wait", "done"}]
    BY DEF RelayInv, Inv, TypeOK
  <1>3. RelayTypes' /\ RepliedWhenDone'
    BY <1>1 DEF RelayInv, RelayTypes, RepliedWhenDone
  <1>4. \A d \in Calls : /\ relayed'[d] # "none" <=> relayed[d] # "none"
                         /\ caller'[d] # "idle" => caller[d] # "idle" \/ d = c
    BY <1>1, <1>2 DEF RelayInv, RelayTypes
  <1>5. InvokedForAsker'
    BY <1>1, <1>4 DEF RelayInv, InvokedForAsker
  <1>6. ToldIsDone'
    BY <1>1 DEF RelayInv, ToldIsDone
  <1> QED
    BY <1>3, <1>5, <1>6 DEF RelayParts

LEMMA DispatchCancelParts ==
  ASSUME RelayInv, DispatchCancel
  PROVE  RelayParts'
PROOF
  <1>1. /\ Ordering("CancelToolCall") /\ orders' = Tail(orders)
        /\ UNCHANGED <<asker, reply, mail, events, relayed, served, caller, work>>
    BY DEF DispatchCancel, callers, runtime, server
  <1>2. /\ orders' \in Seq(Orders)
        /\ \A i \in 1 .. Len(orders') : i + 1 \in 1 .. Len(orders) /\ orders'[i] = orders[i + 1]
    BY <1>1, OrderTaken
  <1>3. RelayTypes' /\ RepliedWhenDone'
    BY <1>1, <1>2 DEF RelayInv, RelayTypes, RepliedWhenDone
  <1>4. InvokedForAsker'
    BY <1>1, <1>2 DEF RelayInv, InvokedForAsker
  <1>5. ToldIsDone'
    BY <1>1 DEF RelayInv, ToldIsDone
  <1> QED
    BY <1>3, <1>4, <1>5 DEF RelayParts

LEMMA RelayAnswersParts ==
  ASSUME RelayInv, DoneIsKept, NEW c \in Calls, RelayAnswers(c)
  PROVE  RelayParts'
PROOF
  <1>1. /\ relayed[c] = "invoking" /\ relayed' = [relayed EXCEPT ![c] = "over"]
        /\ Emits(<<Event(c, answer[c])>>) /\ answer[c] # "none"
        /\ UNCHANGED <<asker, reply, mail, orders, served, caller, work>>
    BY DEF RelayAnswers, vars, server
  <1>2. answer[c] \in Results \cup Errors /\ (answer[c] = "ok" => work'[c] = "done")
    BY <1>1 DEF RelayInv, Inv, TypeOK, AnswersAreDone
  <1>3. events' \in Seq(Events) /\ ToldIsDone'
    <2> DEFINE es == <<Event(c, answer[c])>>
    <2>1. /\ es \in Seq(Events)
          /\ \A j \in 1 .. Len(es) : es[j].id = c /\ (es[j].event = "ok" => work'[c] = "done")
      BY <1>2 DEF Event, Events, Requests, Told
    <2> HIDE DEF es
    <2>2. Emits(es)
      BY <1>1 DEF es
    <2> QED
      BY <1>1, <2>1, <2>2, EmittedParts
  <1>4. RelayTypes' /\ RepliedWhenDone'
    BY <1>1, <1>3 DEF RelayInv, RelayTypes, RepliedWhenDone
  <1>5. \A d \in Calls : relayed'[d] # "none" <=> relayed[d] # "none"
    BY <1>1 DEF RelayInv, RelayTypes
  <1>6. InvokedForAsker'
    BY <1>1, <1>5 DEF RelayInv, InvokedForAsker
  <1> QED
    BY <1>3, <1>4, <1>6 DEF RelayParts

LEMMA LifecycleParts ==
  ASSUME RelayInv, DoneIsKept, DispatchLifecycle \/ LifecycleEnds
  PROVE  RelayParts'
PROOF
  <1>1. /\ UNCHANGED <<asker, reply, mail, relayed, caller, work>>
        /\ orders \in Seq(Orders) /\ served \in Commands \cup {"none"}
    BY DEF DispatchLifecycle, LifecycleEnds, vars, server, RelayInv, RelayTypes
  <1>2. /\ orders' \in Seq(Orders) /\ served' \in Commands \cup {"none"}
        /\ \/ UNCHANGED orders
           \/ \A i \in 1 .. Len(orders') :
                i + 1 \in 1 .. Len(orders) /\ orders'[i] = orders[i + 1]
    <2>1. CASE DispatchLifecycle
      BY <1>1, <2>1, OrderTaken DEF DispatchLifecycle
    <2>2. CASE LifecycleEnds
      BY <1>1, <2>2 DEF LifecycleEnds
    <2> QED
      BY <2>1, <2>2
  <1>3. \E k \in Commands : \E e, f \in Told \ {"ok"} :
          Emits(<<Event(k, e)>>) \/ Emits(<<Event(k, e), Event(k, f)>>)
    <2>1. CASE DispatchLifecycle
      <3>1. Head(orders).id \in Commands
        BY <2>1, OrderTaken DEF DispatchLifecycle
      <3>2. \E e \in {"Creating", "Stopping", "CommandFailed"} :
              Emits(<<Event(Head(orders).id, e)>>)
        BY <2>1 DEF DispatchLifecycle
      <3> QED
        BY <3>1, <3>2 DEF Told, Results
    <2>2. CASE LifecycleEnds
      <3>1. served \in Commands
        BY <1>1, <2>2 DEF LifecycleEnds
      <3>2. \/ \E e \in {"Running", "Stopped", "CommandFailed"} : Emits(<<Event(served, e)>>)
            \/ Emits(<<Event(served, "Failed"), Event(served, "CommandFailed")>>)
        BY <2>2 DEF LifecycleEnds
      <3> QED
        BY <3>1, <3>2 DEF Told, Results
    <2> QED
      BY <2>1, <2>2
  <1>4. PICK k \in Commands, e \in Told \ {"ok"}, f \in Told \ {"ok"} :
          Emits(<<Event(k, e)>>) \/ Emits(<<Event(k, e), Event(k, f)>>)
    BY <1>3
  <1>5. /\ Event(k, e) \in Events /\ Event(k, e).event # "ok"
        /\ Event(k, f) \in Events /\ Event(k, f).event # "ok"
    BY DEF Event, Events, Requests
  <1>6. events' \in Seq(Events) /\ ToldIsDone'
    <2> DEFINE one == <<Event(k, e)>>
               two == <<Event(k, e), Event(k, f)>>
    <2>1. /\ one \in Seq(Events) /\ \A j \in 1 .. Len(one) : one[j].event # "ok"
          /\ two \in Seq(Events) /\ \A j \in 1 .. Len(two) : two[j].event # "ok"
      BY <1>5
    <2>2. Emits(one) \/ Emits(two)
      BY <1>4
    <2> HIDE DEF one, two
    <2> QED
      BY <1>1, <2>1, <2>2, EmittedParts
  <1>7. RelayTypes' /\ RepliedWhenDone'
    BY <1>1, <1>2, <1>6 DEF RelayInv, RelayTypes, RepliedWhenDone
  <1>8. InvokedForAsker'
    BY <1>1, <1>2 DEF RelayInv, InvokedForAsker
  <1> QED
    BY <1>6, <1>7, <1>8 DEF RelayParts

LEMMA ConnectionLostParts ==
  ASSUME RelayInv, ConnectionLost
  PROVE  RelayParts'
PROOF
  <1>1. /\ UNCHANGED <<asker, reply, mail, relayed, served, caller, work>>
        /\ orders' = <<>> /\ events' \in Prefixes(events) /\ events \in Seq(Events)
    BY DEF ConnectionLost, vars, server, RelayInv, RelayTypes
  <1>2. /\ events' \in Seq(Events)
        /\ \A i \in 1 .. Len(events') : i \in 1 .. Len(events) /\ events'[i] = events[i]
    <2>1. /\ events' \in Seq(Events) /\ Len(events') \in Nat /\ Len(events) \in Nat
          /\ Len(events') <= Len(events) /\ \A i \in 1 .. Len(events') : events'[i] = events[i]
      BY <1>1, Lost
    <2> QED
      BY <2>1
  <1>3. RelayTypes' /\ RepliedWhenDone'
    BY <1>1, <1>2 DEF RelayInv, RelayTypes, RepliedWhenDone
  <1>4. InvokedForAsker'
    BY <1>1 DEF RelayInv, InvokedForAsker
  <1>5. ToldIsDone'
    BY <1>1, <1>2 DEF RelayInv, ToldIsDone
  <1> QED
    BY <1>3, <1>4, <1>5 DEF RelayParts

(* A request returns what it has received.                                 *)
LEMMA TakesParts ==
  ASSUME RelayInv, NEW r \in Requests, (r \in Calls /\ TakeResult(r)) \/ TakeOutcome(r)
  PROVE  RelayParts'
PROOF
  <1>1. asker[r] = "wait"
    BY DEF TakeResult, TakeOutcome, Receives
  <1>2. \E v \in {"ok", "failed", "changed", "CommandFailed"} : Returns(r, v)
    BY DEF TakeResult, TakeOutcome, Results
  <1> QED
    BY <1>1, <1>2, ReturnsParts

LEMMA RelayNextInv == RelayInv /\ [RelayNext]_allvars => RelayInv'
PROOF
  <1> SUFFICES ASSUME RelayInv, [RelayNext]_allvars PROVE RelayInv'
    OBVIOUS
  <1>1. Inv' /\ AnswersAreDone' /\ DoneIsKept
    BY LinkKept DEF DoneIsKept
  <1>2. RelayParts'
    <2>1. CASE LinkStep /\ UNCHANGED relay
      BY <1>1, <2>1, LinkStepParts
    <2>2. CASE \E r \in Requests : AskFor(r) \/ AskerStep(r)
      BY <2>2, AskForParts, SendCommandParts, TakesParts, PassOverParts DEF AskerStep
    <2>3. CASE \E c \in Calls : SendCancel(c) \/ RelayInvokes(c) \/ RelayAnswers(c)
      BY <1>1, <2>3, SendCancelParts, RelayInvokesParts, RelayAnswersParts
    <2>4. CASE ReadEvent \/ Dispatch \/ ConnectionLost
      BY <1>1, <2>4, ReadEventParts, ConnectionLostParts, DispatchToolCallParts,
         DispatchCancelParts, LifecycleParts DEF Dispatch
    <2>5. CASE UNCHANGED allvars
      BY <2>5 DEF allvars, vars, relay, server, RelayInv, RelayParts, RelayTypes,
                  RepliedWhenDone, InvokedForAsker, ToldIsDone
    <2> QED
      BY <2>1, <2>2, <2>3, <2>4, <2>5 DEF RelayNext
  <1> QED
    BY <1>1, <1>2 DEF RelayInv, RelayParts

-----------------------------------------------------------------------------
(* The relay implements CallPromise.                                       *)

ServerStatus(c) == IF reply[c] # "none" THEN reply[c]
                   ELSE IF asker[c] = "idle" THEN "idle" ELSE "asked"

(* A step of the link that the server does not see: what it does with a    *)
(* tool is that of a call the server asked for.                            *)
LEMMA LinkIsPromised ==
  ASSUME RelayInv, Inv', [Next]_vars, UNCHANGED <<asker, reply>>
  PROVE  [ServerPromise!Next]_(ServerPromise!vars)
PROOF
  <1>1. [Promise!Next]_(Promise!vars)
    BY PromiseNext DEF RelayInv
  <1>2. CASE UNCHANGED work
    BY <1>2 DEF ServerPromise!vars
  <1>3. CASE Promise!End
    BY <1>3 DEF Promise!End, ServerPromise!End, ServerPromise!Next
  <1>4. ASSUME NEW c \in Calls, Promise!Start(c)
        PROVE  ServerPromise!Start(c)
    <2>1. StatusOf(c) # "idle" /\ work[c] = "none" /\ work' = [work EXCEPT ![c] = "running"]
      BY <1>4 DEF Promise!Start, StatusOf
    <2>2. caller[c] # "idle"
      BY <2>1 DEF StatusOf, RelayInv, Inv, CallersAreListed
    <2>3. asker[c] # "idle"
      BY <2>2 DEF RelayInv, InvokedForAsker
    <2>4. ServerStatus(c) # "idle"
      <3>1. reply[c] \in {"none", "ok", "failed", "SendFailed", "changed", "CommandFailed"}
        BY DEF RelayInv, RelayTypes, Requests
      <3> QED
        BY <2>3, <3>1 DEF ServerStatus
    <2> QED
      BY <2>1, <2>4 DEF ServerPromise!Start, ServerStatus
  <1> QED
    BY <1>1, <1>2, <1>3, <1>4
    DEF Promise!Next, Promise!Ask, Promise!Answer, Promise!vars, ServerPromise!Next

(* What happens to the statuses of calls when a request changes.           *)
LEMMA ServerAsks ==
  ASSUME RelayInv, NEW r \in Requests, AskFor(r)
  PROVE  [ServerPromise!Next]_(ServerPromise!vars)
PROOF
  <1>1. /\ asker[r] = "idle" /\ asker' = [asker EXCEPT ![r] = "send"]
        /\ UNCHANGED <<reply, work>> /\ asker \in [Requests -> {"idle", "send", "wait", "done"}]
        /\ reply[r] = "none"
    BY DEF AskFor, vars, RelayInv, RelayTypes, RepliedWhenDone
  <1>2. CASE r \in Calls
    <2>1. [c \in Calls |-> ServerStatus(c)]' =
            [[c \in Calls |-> ServerStatus(c)] EXCEPT ![r] = "asked"]
      BY <1>1, <1>2 DEF ServerStatus, Requests
    <2> QED
      BY <1>1, <1>2, <2>1 DEF ServerPromise!Ask, ServerPromise!Next, ServerStatus
  <1>3. CASE r \notin Calls
    BY <1>1, <1>3 DEF ServerPromise!vars, Requests
  <1> QED
    BY <1>2, <1>3

LEMMA ServerIsAnswered ==
  ASSUME RelayInv, NEW r \in Requests, asker[r] \in {"send", "wait"}, UNCHANGED work,
         NEW v \in {"ok", "failed", "SendFailed", "changed", "CommandFailed"},
         r \in Calls => v \in {"failed", "SendFailed"} \/ (v = "ok" /\ work[r] = "done"),
         asker' = [asker EXCEPT ![r] = "done"], reply' = [reply EXCEPT ![r] = v]
  PROVE  [ServerPromise!Next]_(ServerPromise!vars)
PROOF
  <1>1. /\ asker \in [Requests -> {"idle", "send", "wait", "done"}] /\ reply[r] = "none"
        /\ reply \in [Requests -> {"none", "ok", "failed", "SendFailed", "changed", "CommandFailed"}]
    BY DEF RelayInv, RelayTypes, RepliedWhenDone
  <1>2. CASE r \in Calls
    <2>1. [c \in Calls |-> ServerStatus(c)]' =
            [[c \in Calls |-> ServerStatus(c)] EXCEPT ![r] = v]
      BY <1>1, <1>2 DEF ServerStatus, Requests
    <2>2. [c \in Calls |-> ServerStatus(c)][r] = "asked"
      BY <1>1, <1>2 DEF ServerStatus
    <2> QED
      BY <1>2, <2>1, <2>2 DEF ServerPromise!Answer, ServerPromise!Next, ServerStatus
  <1>3. CASE r \notin Calls
    BY <1>1, <1>3 DEF ServerPromise!vars, Requests
  <1> QED
    BY <1>2, <1>3

LEMMA SendIsPromised ==
  ASSUME RelayInv, NEW r \in Requests, SendCommand(r)
  PROVE  [ServerPromise!Next]_(ServerPromise!vars)
PROOF
  <1>1. asker[r] = "send" /\ UNCHANGED work
    BY DEF SendCommand, vars
  <1>2. CASE asker' = [asker EXCEPT ![r] = "wait"] /\ UNCHANGED reply
    <2>1. \A c \in Calls : asker'[c] = "idle" <=> asker[c] = "idle"
      BY <1>1, <1>2 DEF RelayInv, RelayTypes, Requests
    <2> QED
      BY <1>1, <1>2, <2>1 DEF ServerPromise!vars
  <1>3. CASE asker' = [asker EXCEPT ![r] = "done"] /\ reply' = [reply EXCEPT ![r] = "SendFailed"]
    BY <1>1, <1>3, ServerIsAnswered
  <1> QED
    BY <1>2, <1>3 DEF SendCommand

LEMMA TakesArePromised ==
  ASSUME RelayInv, NEW r \in Requests, (r \in Calls /\ TakeResult(r)) \/ (r \in Commands /\ TakeOutcome(r))
  PROVE  [ServerPromise!Next]_(ServerPromise!vars)
PROOF
  <1>1. CASE r \in Calls /\ TakeResult(r)
    <2>1. PICK v \in Results \cup Errors :
            Receives(r, v) /\ Returns(r, IF v \in Errors THEN "failed" ELSE v)
      BY <1>1 DEF TakeResult
    <2>2. v = "ok" => work[r] = "done"
      <3>1. /\ mail[r] # <<>> /\ Head(mail[r]) = v /\ mail[r] \in Seq(Told)
        BY <2>1 DEF Receives, RelayInv, RelayTypes
      <3>2. 1 \in 1 .. Len(mail[r]) /\ mail[r][1] = v
        BY <3>1, Taken
      <3> QED
        BY <1>1, <3>2 DEF RelayInv, ToldIsDone
    <2>3. PICK w \in {"ok", "failed"} : w = IF v \in Errors THEN "failed" ELSE v
      BY <2>1 DEF Results
    <2>4. /\ asker[r] = "wait" /\ UNCHANGED work /\ (w = "ok" => work[r] = "done")
          /\ asker' = [asker EXCEPT ![r] = "done"] /\ reply' = [reply EXCEPT ![r] = w]
      BY <2>1, <2>2, <2>3 DEF Receives, Returns, vars, Errors
    <2> QED
      BY <2>3, <2>4, ServerIsAnswered
  <1>2. CASE r \in Commands /\ TakeOutcome(r)
    <2>1. /\ asker[r] = "wait" /\ UNCHANGED work /\ r \notin Calls
          /\ asker' = [asker EXCEPT ![r] = "done"]
          /\ \E v \in {"changed", "CommandFailed"} : reply' = [reply EXCEPT ![r] = v]
      BY <1>2, RelayAssumption DEF TakeOutcome, Receives, Returns, vars
    <2> QED
      BY <2>1, ServerIsAnswered
  <1> QED
    BY <1>1, <1>2

LEMMA RelayPromiseInit == RelayInit => ServerPromise!Init
  BY DEF RelayInit, Init, Requests, ServerPromise!Init

LEMMA RelayPromiseNext ==
  RelayInv /\ RelayInv' /\ [RelayNext]_allvars => [ServerPromise!Next]_(ServerPromise!vars)
PROOF
  <1> SUFFICES ASSUME RelayInv, RelayInv', [RelayNext]_allvars
               PROVE  [ServerPromise!Next]_(ServerPromise!vars)
    OBVIOUS
  <1>1. Inv'
    BY DEF RelayInv
  <1>2. CASE LinkStep /\ UNCHANGED relay
    BY <1>1, <1>2, LinkIsPromised DEF relay, server, Next
  <1>3. CASE \E c \in Calls : RelayInvokes(c)
    BY <1>1, <1>3, LinkIsPromised DEF RelayInvokes, server, Next
  <1>4. CASE \E r \in Requests : AskFor(r)
    BY <1>4, ServerAsks
  <1>5. CASE \E r \in Requests : SendCommand(r)
    BY <1>5, SendIsPromised
  <1>6. CASE \E r \in Requests : (r \in Calls /\ TakeResult(r)) \/ (r \in Commands /\ TakeOutcome(r))
    BY <1>6, TakesArePromised
  <1>7. CASE UNCHANGED <<asker, reply, work>>
    BY <1>7 DEF ServerPromise!vars
  <1>8. \/ UNCHANGED <<asker, reply, work>>
        \/ LinkStep /\ UNCHANGED relay
        \/ \E c \in Calls : RelayInvokes(c)
        \/ \E r \in Requests :
             \/ AskFor(r) \/ SendCommand(r)
             \/ (r \in Calls /\ TakeResult(r)) \/ (r \in Commands /\ TakeOutcome(r))
    <2>1. CASE UNCHANGED allvars
      BY <2>1 DEF allvars, vars, relay, server
    <2>2. CASE \E r \in Requests : PassOver(r)
      BY <2>2 DEF PassOver, vars
    <2>3. CASE \E c \in Calls : SendCancel(c) \/ RelayAnswers(c)
      BY <2>3 DEF SendCancel, RelayAnswers, vars, server, runtime
    <2>4. CASE ReadEvent \/ Dispatch \/ ConnectionLost
      BY <2>4 DEF ReadEvent, Dispatch, ConnectionLost, DispatchToolCall, DispatchCancel,
                  DispatchLifecycle, LifecycleEnds, vars, server, runtime
    <2> QED
      BY <2>1, <2>2, <2>3, <2>4 DEF RelayNext, AskerStep
  <1> QED
    BY <1>2, <1>3, <1>4, <1>5, <1>6, <1>7, <1>8

(* The relay's own invariant: a call crosses to the runtime only for a     *)
(* request of the server, and a result anywhere on its way back is that of *)
(* a tool that has ended.                                                  *)
LEMMA RelayInvariance == RelaySpec => []RelayInv
PROOF
  <1> QED
    BY RelayInitInv, RelayNextInv, PTL DEF RelaySpec

(* ExecutorClient's relayed invoke keeps the safety part of what the       *)
(* direct link promises, with lifecycle commands on the same connection,   *)
(* and whatever is cancelled, lost or broken on either link.               *)
THEOREM RelayKeeps == RelaySpec => RelayKeepsPromise
PROOF
  <1> QED
    BY RelayPromiseInit, RelayPromiseNext, RelayInvariance, PTL
    DEF RelaySpec, RelayKeepsPromise, ServerPromise!Spec
=============================================================================
