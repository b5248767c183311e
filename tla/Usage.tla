-------------------------------- MODULE Usage -------------------------------
(***************************************************************************)
(* How the tokens of a request are read off the relay's reply:               *)
(* internal/billing/usage.go.  An event is one JSON object; "outer" is its   *)
(* own usage field, "inner" that of the message or response inside it.       *)
(***************************************************************************)
EXTENDS Integers, Sequences

CONSTANTS
  NoUsage   \* a usage field that is missing or null

Counts == {"input", "output", "cached"}

\* A payload: whether it is a whole JSON object, and whether the tee finds the
\* word usage in it.
Payloads ==
  [whole : BOOLEAN, mentions : BOOLEAN,
   outer : [Counts -> Nat] \cup {NoUsage}, inner : [Counts -> Nat] \cup {NoUsage}]

ASSUME UsageAssumption == NoUsage \notin [Counts -> Nat]

Nothing == [c \in Counts |-> 0]

\* Mutant: the largest of the frames gives way to the last.
LaterOf(u, v) == v

\* The running maximum over the frames, count by count.
LargerOf(u, v) == [c \in Counts |-> IF v[c] > u[c] THEN v[c] ELSE u[c]]

\* ParseChatUsage looks at the top level only; the others prefer the inner one.
UsageOf(endpoint, event) ==
  IF endpoint # "chat" /\ event.inner # NoUsage THEN event.inner ELSE event.outer

\* A payload that is no JSON object, or has no usage, is skipped.
Counted(endpoint, payload) ==
  /\ payload.whole
  /\ UsageOf(endpoint, payload) # NoUsage

\* The frames one after the other.
ParseUsage(endpoint, payloads) ==
  LET largest[i \in 0 .. Len(payloads)] ==
        IF i = 0 THEN Nothing
        ELSE IF Counted(endpoint, payloads[i])
        THEN LargerOf(largest[i - 1], UsageOf(endpoint, payloads[i]))
        ELSE largest[i - 1]
  IN  largest[Len(payloads)]

Garbled == [whole |-> FALSE, mentions |-> TRUE, outer |-> NoUsage, inner |-> NoUsage]

\* sseDataPayloads splits at empty lines that end in a bare newline.  Events
\* whose lines end in CRLF stay in one piece, which is an object only if it is
\* one event.
DataPayloads(events, crlf) ==
  IF crlf /\ Len(events) > 1 THEN <<Garbled>> ELSE events
=============================================================================
