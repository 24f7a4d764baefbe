--------------------------- MODULE ProviderStream ---------------------------
(***************************************************************************)
(* AnthropicProvider::complete: one completion out of a stream of events,  *)
(* with retries.  The events are passed on to the sink as they come, the   *)
(* blocks are put together for the answer.                                 *)
(*                                                                         *)
(* The API (external) streams messages of blocks, one block after the      *)
(* other; a stream may fail or end early at any event.  A piece of a block *)
(* is the triple of its attempt, its block and its place; what it says is  *)
(* left out.  The backoff is left out; a time limit there is none.         *)
(***************************************************************************)
EXTENDS Integers, Sequences, FiniteSets, SequencesExt

CONSTANTS Messages,   \* what the API may have to say
          MaxRetries, \* MAX_STREAM_RETRIES
          NoCount     \* a usage that is not in the event

Kinds  == {"text", "tool", "thinking"}
Block  == [kind : Kinds, size : Nat]

(* Errors of the stream, by what their message has in it.                  *)
Failures     == {"overloaded", "rate_limit", "429", "other"}
IsRetryable  == {"overloaded", "rate_limit"}
ToLlmError(f) == CASE f = "overloaded"           -> "Overloaded"
                   [] f \in {"rate_limit", "429"} -> "RateLimit"
                   [] f = "other"                -> "Network"

ASSUME ProviderAssumption ==
  /\ MaxRetries \in Nat
  /\ \A m \in Messages : /\ m.blocks \in Seq(Block)
                         /\ m.stop \in {"tool_use", "max_tokens", "end_turn"}
                         /\ m.input \in Nat \cup {NoCount}

VARIABLES
  attempt,     \* number of the attempt, from 0
  message,     \* API: what this attempt's stream is to carry
  position,    \* API: <<block, piece>> it is at; see Upcoming
  blocks,      \* the blocks begun: index to [kind, pieces]
  stop_reason,
  input_tokens,
  last_error,  \* or "none"
  emitted,     \* what went to the sink
  outcome,     \* "none", or the result
  ends         \* history: how each attempt's stream ended, failed or "over"

streamVars == <<attempt, message, position, blocks, stop_reason, input_tokens,
                last_error, emitted, outcome, ends>>

api == <<message, position>>
got == <<blocks, stop_reason, input_tokens>>

NoBlocks == [i \in {} |-> [kind |-> "text", pieces |-> <<>>]]

StreamInit ==
  /\ attempt = 0
  /\ message \in Messages /\ position = <<0, 0>>
  /\ blocks = NoBlocks /\ stop_reason = "end_turn" /\ input_tokens = 0
  /\ last_error = "none" /\ emitted = <<>> /\ outcome = [kind |-> "none"]
  /\ ends = <<>>

-----------------------------------------------------------------------------
(* The API's next event: the message's start, then for each block its      *)
(* start, its pieces and its stop, then the message's delta and its stop.  *)
Upcoming ==
  LET b == position[1]
      n == position[2]
  IN CASE b = 0 -> "MessageStart"
       [] b \in DOMAIN message.blocks /\ n = 0 -> "BlockStart"
       [] b \in DOMAIN message.blocks /\ n \in 1 .. message.blocks[b].size -> "Delta"
       [] b \in DOMAIN message.blocks /\ n > message.blocks[b].size -> "BlockStop"
       [] b = Len(message.blocks) + 1 -> "MessageDelta"
       [] b = Len(message.blocks) + 2 -> "MessageStop"
       [] OTHER -> "nothing"

Event(type) == outcome.kind = "none" /\ Upcoming = type

NextBlock == position' = <<position[1] + 1, 0>> /\ UNCHANGED message
NextPiece == position' = <<position[1], position[2] + 1>> /\ UNCHANGED message
Emit(e)   == emitted' = Append(emitted, e)
Quiet     == UNCHANGED <<attempt, last_error, outcome, ends>>
EndsAs(e) == ends' = Append(ends, e)

Index == position[1]
Piece == <<attempt, position[1], position[2]>>

MessageStart ==
  /\ Event("MessageStart") /\ NextBlock /\ Quiet
  /\ input_tokens' = IF message.input = NoCount THEN input_tokens ELSE message.input
  /\ UNCHANGED <<blocks, stop_reason, emitted>>

(* Only a tool call's start is told.                                       *)
BlockStart ==
  /\ Event("BlockStart") /\ NextPiece /\ Quiet
  /\ LET kind == message.blocks[Index].kind IN
     /\ blocks' = [i \in DOMAIN blocks \cup {Index} |->
                     IF i = Index THEN [kind |-> kind, pieces |-> <<>>] ELSE blocks[i]]
     /\ IF kind = "tool" THEN Emit([event |-> "start", index |-> Index])
        ELSE UNCHANGED emitted
  /\ UNCHANGED <<stop_reason, input_tokens>>

Delta ==
  /\ Event("Delta") /\ NextPiece /\ Quiet
  /\ blocks' = [blocks EXCEPT ![Index].pieces = Append(@, Piece)]
  /\ Emit([event |-> "piece", index |-> Index, piece |-> Piece])
  /\ UNCHANGED <<stop_reason, input_tokens>>

BlockStop ==
  /\ Event("BlockStop") /\ NextBlock /\ Quiet
  /\ IF message.blocks[Index].kind = "tool"
     THEN Emit([event |-> "done", index |-> Index]) ELSE UNCHANGED emitted
  /\ UNCHANGED got

MessageDelta ==
  /\ Event("MessageDelta") /\ NextBlock /\ Quiet
  /\ stop_reason' = message.stop
  /\ UNCHANGED <<blocks, input_tokens, emitted>>

MessageStop ==
  /\ Event("MessageStop") /\ NextBlock /\ Quiet
  /\ UNCHANGED <<got, emitted>>

(* Mutant: what the failed attempt left is still there.                    *)
RetryKeeping(f) ==
  /\ last_error' = ToLlmError(f)
  /\ attempt' = attempt + 1
  /\ message' \in Messages /\ position' = <<0, 0>>
  /\ UNCHANGED <<blocks, stop_reason, input_tokens, emitted, outcome>>

(* The next attempt begins with nothing of the last one but its error.     *)
Retry(f) ==
  /\ last_error' = ToLlmError(f)
  /\ attempt' = attempt + 1
  /\ message' \in Messages /\ position' = <<0, 0>>
  /\ blocks' = NoBlocks /\ stop_reason' = "end_turn" /\ input_tokens' = 0
  /\ UNCHANGED <<emitted, outcome>>

GiveUp(e) ==
  /\ outcome' = [kind |-> "error", error |-> e]
  /\ UNCHANGED <<attempt, api, got, last_error, emitted>>

(* Mutant: attempts are not counted.                                       *)
StreamFailsUncounted(f) ==
  /\ outcome.kind = "none"
  /\ IF f \in IsRetryable /\ DOMAIN blocks = {} /\ attempt < MaxRetries
     THEN /\ last_error' = ToLlmError(f) /\ message' \in Messages
          /\ position' = <<0, 0>> /\ blocks' = NoBlocks
          /\ UNCHANGED <<attempt, stop_reason, input_tokens, emitted, outcome, ends>>
     ELSE GiveUp(ToLlmError(f)) /\ EndsAs(f)

(* Mutant: one attempt less.                                               *)
StreamFailsEarly(f) ==
  /\ outcome.kind = "none"
  /\ IF f \in IsRetryable /\ DOMAIN blocks = {} /\ attempt + 1 < MaxRetries
     THEN Retry(f) ELSE GiveUp(ToLlmError(f))
  /\ EndsAs(f)

(* An error is retried if it is one of load and no block has begun, as     *)
(* long as attempts are left.                                              *)
StreamFails(f) ==
  /\ outcome.kind = "none"
  /\ IF f \in IsRetryable /\ DOMAIN blocks = {} /\ attempt < MaxRetries
     THEN Retry(f) ELSE GiveUp(ToLlmError(f))
  /\ EndsAs(f)

-----------------------------------------------------------------------------
(* The answer: blocks by their index, empty texts and thoughts left out; a *)
(* tool's input is {} unless all of its JSON is there.                     *)
Part(i) ==
  LET b == blocks[i]
      whole == Len(b.pieces) = message.blocks[i].size
  IN [index |-> i, kind |-> b.kind,
      pieces |-> IF b.kind = "tool" /\ ~whole THEN <<>> ELSE b.pieces]

(* SelectSeq as the loop that it is: a tool is pushed, and what is not empty. *)
Pushed(s) ==
  LET pushed[i \in 0 .. Len(s)] ==
        IF i = 0 THEN <<>>
        ELSE IF s[i].kind = "tool" \/ s[i].pieces # <<>>
             THEN Append(pushed[i - 1], s[i]) ELSE pushed[i - 1]
  IN pushed[Len(s)]

Parts == Pushed([i \in 1 .. Cardinality(DOMAIN blocks) |-> Part(i)])

(* The stream is over, be the message complete or not.  No block at all    *)
(* after a failed attempt counts as that attempt's failure.                *)
StreamEnds ==
  /\ outcome.kind = "none" /\ EndsAs("over")
  /\ IF DOMAIN blocks = {} /\ last_error # "none" THEN GiveUp(last_error)
     ELSE /\ outcome' = [kind |-> "ok", parts |-> Parts, stop |-> stop_reason,
                         input |-> input_tokens]
          /\ UNCHANGED <<attempt, api, got, last_error, emitted>>

Stream ==
  \/ MessageStart \/ BlockStart \/ Delta \/ BlockStop \/ MessageDelta \/ MessageStop
  \/ StreamEnds \/ \E f \in Failures : StreamFails(f)

StreamNext == Stream
StreamSpec == StreamInit /\ [][StreamNext]_streamVars

(* A stream yields its next event, fails or ends: taken of the API, as     *)
(* nothing in the code limits the wait.                                    *)
FairStreamSpec == StreamSpec /\ WF_streamVars(Stream)

-----------------------------------------------------------------------------
(* Properties.                                                             *)

StreamTypeOK ==
  /\ attempt \in 0 .. MaxRetries /\ message \in Messages
  /\ stop_reason \in {"tool_use", "max_tokens", "end_turn"}
  /\ input_tokens \in Nat
  /\ last_error \in {"none", "Overloaded", "RateLimit"}
  /\ \A i \in DOMAIN blocks : blocks[i].kind = message.blocks[i].kind
  /\ DOMAIN blocks = 1 .. Cardinality(DOMAIN blocks)

Completed == position[1] > Len(message.blocks) + 2

(* What the sink was shown piece by piece is what the answer holds, block  *)
(* for block; nothing was shown of an attempt that came to nothing.        *)
Shown(i)   == {k \in DOMAIN emitted : emitted[k].event = "piece" /\ emitted[k].index = i}
Started(i) == {k \in DOMAIN emitted : emitted[k].event = "start" /\ emitted[k].index = i}

(* They are the pieces shown of block i, all of them, in the order shown.  *)
AsShown(i, pieces) ==
  \E f \in [DOMAIN pieces -> Shown(i)] :
    /\ \A m, n \in DOMAIN pieces : m < n => f[m] < f[n]
    /\ \A k \in Shown(i) : \E n \in DOMAIN pieces : f[n] = k
    /\ \A n \in DOMAIN pieces : emitted[f[n]].piece = pieces[n]

ShownIsReturned ==
  outcome.kind = "ok" =>
    /\ \A k \in DOMAIN outcome.parts :
         LET p == outcome.parts[k] IN
         /\ p.kind # "tool" \/ p.pieces # <<>> => AsShown(p.index, p.pieces)
         /\ p.kind = "tool" => \E m \in Started(p.index) : Started(p.index) = {m}
    /\ \A k \in DOMAIN emitted :
         \E j \in DOMAIN outcome.parts : outcome.parts[j].index = emitted[k].index

(* A message that came to its stop is returned as it was meant - every     *)
(* block that is not empty, in order, all its pieces, the usage and the    *)
(* reason to stop of this attempt and no other - retried or not.           *)
Meant ==
  Pushed([i \in DOMAIN message.blocks |->
            [index |-> i, kind |-> message.blocks[i].kind,
             pieces |-> [n \in 1 .. message.blocks[i].size |-> <<attempt, i, n>>]]])
StoppedIsExact ==
  outcome.kind = "ok" /\ Completed =>
    /\ outcome.parts = Meant
    /\ outcome.stop = message.stop
    /\ outcome.input = IF message.input = NoCount THEN 0 ELSE message.input

(* The answer is exact: of the right types, equal to what was shown, and,  *)
(* when the message stopped, to what it was meant to be.                   *)
AnswerIsExact == StreamTypeOK /\ ShownIsReturned /\ StoppedIsExact

(* It gives up late: every attempt before the last ended with an error of  *)
(* load; so did the last only when the attempts are used up or a block had *)
(* begun; and what is answered is the last attempt's own error, or, when   *)
(* that attempt's stream was over without a block, the error of the one    *)
(* before it.                                                              *)
GivesUpLate ==
  outcome.kind = "error" =>
    LET n    == attempt + 1
        last == ends[n]
    IN /\ Len(ends) = n /\ n <= MaxRetries + 1
       /\ \A i \in 1 .. attempt : ends[i] \in IsRetryable
       /\ last \in IsRetryable => n = MaxRetries + 1 \/ DOMAIN blocks # {}
       /\ IF last = "over"
          THEN DOMAIN blocks = {} /\ n > 1 /\ outcome.error = ToLlmError(ends[n - 1])
          ELSE outcome.error = ToLlmError(last)

(* complete() comes to an end, as long as the stream it reads yields its   *)
(* next event, fails or ends: the client sets no time limit, and on a      *)
(* stream that stalls it would wait for ever.                              *)
Completes == <>(outcome.kind # "none")

-----------------------------------------------------------------------------
(* Refuted.                                                                *)

(* A tool is called with all of the input the model gave it: a stream that *)
(* ends early leaves {} in its place.                                      *)
ToolInputIsWhole ==
  outcome.kind = "ok" =>
    \A k \in DOMAIN outcome.parts :
      LET p == outcome.parts[k] IN
      p.kind = "tool" => Len(p.pieces) = message.blocks[p.index].size

(* What is reported as a rate limit was tried again: "429" is not in the   *)
(* list of what can be.                                                    *)
LimitsAreRetried ==
  outcome.kind = "error" /\ outcome.error = "RateLimit" =>
    attempt > 0 \/ DOMAIN blocks # {}

(* A message that came to its stop is an answer: the error of an earlier   *)
(* attempt is returned instead of an empty one.                            *)
StoppedIsAnswered == outcome.kind = "error" => ~Completed
=============================================================================
