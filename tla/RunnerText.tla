----------------------------- MODULE RunnerText -----------------------------
(***************************************************************************)
(* What the diagnostic runner makes of the agent's text: partial texts are *)
(* collected and flushed as deltas, by size, by time, or when the agent is *)
(* done, and the completed message has it all.                             *)
(*                                                                         *)
(* A piece of text is the number of its place in what the model says.      *)
(* Whether a buffer is long or old enough is left open.                    *)
(***************************************************************************)
EXTENDS Integers, Sequences, SequencesExt

CONSTANT MaxText  \* bound on the pieces of text of a turn

ASSUME TextAssumption == MaxText \in Nat

VARIABLES
  said,     \* how many pieces the model has said
  buffer,   \* _TextDeltaCoalescer._buffer
  parts,    \* its _full_text_parts
  callFrom, \* how many pieces had been said when the last model call began
  deltas,   \* assistant.delta events of the turn, as pieces
  message,  \* full_text of its assistant.message_completed; <<>> for none
  stream    \* "closed", "open", or "ended" when the runner's stream is over

textVars == <<said, buffer, parts, callFrom, deltas, message, stream>>

TextInit ==
  /\ said = 0 /\ callFrom = 0
  /\ buffer = <<>> /\ parts = <<>> /\ deltas = <<>> /\ message = <<>>
  /\ stream = "closed"

\* A turn has a coalescer of its own, which goes with its execution.
Restarted(to) ==
  /\ said' = 0 /\ callFrom' = 0
  /\ buffer' = <<>> /\ parts' = <<>> /\ deltas' = <<>> /\ message' = <<>>
  /\ stream' = to

OpenStream == Restarted("open")
CloseStream == Restarted("closed")

Silent == stream = "open" /\ said = 0 /\ callFrom = 0 /\ message = <<>>
Listening == stream = "open" /\ message = <<>>
Pieces(from, to) == [i \in 1..(to - from) |-> from + i]

\* Faulty: text that was streamed and comes again is taken for new.
FinalTextRepeated(text, accumulated) ==
  IF IsPrefix(accumulated, text) THEN text ELSE accumulated \o text

\* _final_text_from_event
FinalText(text, accumulated) ==
  CASE text = <<>> -> accumulated
    [] IsPrefix(accumulated, text) -> text
    [] IsSuffix(text, accumulated) -> accumulated
    [] OTHER -> accumulated \o text

Flushed == deltas \o buffer

-----------------------------------------------------------------------------
\* Several parts of one event are one piece here: each is added alike.
PartialText ==
  /\ Listening
  /\ said < MaxText
  /\ said' = said + 1
  /\ parts' = Append(parts, said')
  /\ \/ /\ buffer' = Append(buffer, said')
        /\ deltas' = deltas
     \/ /\ buffer' = <<>>
        /\ deltas' = Append(Flushed, said')
  /\ UNCHANGED <<callFrom, message, stream>>

TimedFlush ==
  /\ stream = "open"
  /\ buffer # <<>>
  /\ deltas' = Flushed
  /\ buffer' = <<>>
  /\ UNCHANGED <<said, parts, callFrom, message, stream>>

\* A tool is called and answers; the model is called once more.  The text that
\* comes with the call has been streamed and is not looked at again.
ToolAnswered ==
  /\ Listening
  /\ callFrom' = said
  /\ UNCHANGED <<said, buffer, parts, deltas, message, stream>>

\* The final response carries the text of the last model call, streamed before
\* or not, or none.
FinalResponse ==
  /\ Listening
  /\ \E new \in 0..1 :
       LET text == IF new = 1 THEN <<said + 1>> ELSE Pieces(callFrom, said)
       IN /\ new = 1 => callFrom = said /\ said < MaxText
          /\ said' = said + new
          /\ message' = FinalText(text, parts)
  /\ message' # <<>>
  /\ deltas' = Flushed
  /\ buffer' = <<>>
  /\ UNCHANGED <<parts, callFrom, stream>>

\* The agent ends; what it said without a final response is flushed.
StreamEnds ==
  /\ stream = "open"
  /\ deltas' = Flushed
  /\ buffer' = <<>>
  /\ stream' = "ended"
  /\ UNCHANGED <<said, parts, callFrom, message>>

\* It raises: the rest of the buffer is lost with it.  A bound ADK session that
\* is no longer available ends the stream before it begins.
StreamRaises ==
  /\ stream = "open"
  /\ buffer' = <<>>
  /\ stream' = "ended"
  /\ UNCHANGED <<said, parts, callFrom, deltas, message>>

TextStep ==
  \/ PartialText \/ TimedFlush \/ ToolAnswered \/ FinalResponse
  \/ StreamEnds \/ StreamRaises

-----------------------------------------------------------------------------
\* The user who watched the deltas and the one who reads the message see the
\* same text: all the model said, each piece once and in order, over however
\* many model calls, flushes and repetitions it was spread.
MessageIsWholeText ==
  message # <<>> =>
    /\ message = Pieces(0, said)
    /\ IsPrefix(deltas, message)
    /\ Len(deltas) = Len(parts)
=============================================================================
