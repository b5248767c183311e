------------------------------ MODULE Exchange ------------------------------
(***************************************************************************)
(* One conversation of a client with the gateway, as data: each turn's body  *)
(* is normalised under the disguise in force (handler.go, normalize.go), the *)
(* relay's reply is passed on event by event while its usage is set aside    *)
(* (teeStream, usage.go), and an administrator changes the disguise between  *)
(* any two steps.  How an account is found for the request is in Forward.    *)
(***************************************************************************)
EXTENDS Normalize, Usage

CONSTANTS
  Bodies,      \* what a client may open a conversation with
  Additions,   \* the messages that a later turn may add
  Events,      \* the events of replies
  MaxTurns,    \* turns of a conversation
  MaxEvents,   \* events of a reply
  EnvMode,     \* CLAUDE_CLOAK_MODE, or the built-in default
  Absent       \* no row in settings; no body; no event

ASSUME ExchangeAssumption ==
  /\ MaxTurns \in Nat \ {0}
  /\ MaxEvents \in Nat \ {0}
  /\ EnvMode \in Modes
  /\ Bodies \subseteq BodyType /\ Additions \subseteq MessageType
  /\ \A b \in Bodies : b.bare => b.endpoint = "responses"
  /\ Events \subseteq Payloads
  /\ Absent \notin BodyType \cup Events
  /\ \A e \in Events : (e.outer # NoUsage \/ e.inner # NoUsage) => e.mentions

VARIABLES
  setting,   \* the row claude_cloak_mode of settings, "" and absent alike
  turn,      \* turns of the conversation so far, 0 before the first
  body,      \* the body of the present turn as the client sent it
  mode,      \* the disguise that the turn was normalised under
  sent,      \* norm.Body
  affinity,  \* norm.AffinityKey
  pc,        \* between turns, waiting for the relay, or passing its reply on
  crlf,      \* whether the lines of the reply end in CRLF
  pending,   \* eventBuf: an event whose empty line has not been seen
  usageBuf,  \* usageBuf
  arrived,   \* the events of the reply so far
  usage      \* what is logged

replyVars == <<crlf, pending, usageBuf, arrived, usage>>
exchangeVars == <<setting, turn, body, mode, sent, affinity, pc, replyVars>>

ExchangeInit ==
  /\ setting = Absent
  /\ turn = 0
  /\ body = Absent
  /\ mode = EnvMode
  /\ sent = Absent
  /\ affinity = Absent
  /\ pc = "idle"
  /\ crlf = FALSE
  /\ pending = Absent
  /\ usageBuf = <<>>
  /\ arrived = <<>>
  /\ usage = Nothing

-----------------------------------------------------------------------------
(* Settings.                                                                *)

\* handleSettingsPut writes one row; "" removes it in effect.  A PUT of several
\* keys may stop half way, which is to say before or after this row.
PutSetting(value) ==
  /\ setting' = value
  /\ UNCHANGED <<turn, body, mode, sent, affinity, pc, replyVars>>

\* Mutant: whatever the row says is used.
AnySetting == setting

\* Accessor.Get: the row, if it can be read, is a known mode or leaves the rest
\* to the environment.
CloakMode == IF setting \in Modes THEN setting ELSE EnvMode

-----------------------------------------------------------------------------
(* A turn.                                                                  *)

Begin(b) ==
  /\ Routed(StripPrefix(b))
  /\ \E m \in {CloakMode, EnvMode} :
       /\ mode' = m
       /\ sent' = Normalized(b, m)
  /\ body' = b
  /\ affinity' = AffinityKey(sent')
  /\ turn' = turn + 1
  /\ pc' = "forward"
  /\ crlf' = FALSE
  /\ pending' = Absent
  /\ usageBuf' = <<>>
  /\ arrived' = <<>>
  /\ usage' = Nothing
  /\ UNCHANGED setting

FirstTurn ==
  /\ pc = "idle" /\ turn = 0
  /\ \E b \in Bodies : Begin(b)

\* The client sends the whole conversation again, with a message more.  What it
\* sent as one string is now a message, in a form of its own or in the form that
\* the gateway had given it.
LaterTurn ==
  /\ pc = "idle" /\ 0 < turn /\ turn < MaxTurns
  /\ \E message \in Additions, earlier \in {body.messages, WrapInput(body).messages} :
       Begin([body EXCEPT !.messages = Append(earlier, message), !.bare = FALSE])

\* No account, or no answer: the client is told so and usage stays nothing.
NoAnswer ==
  /\ pc = "forward"
  /\ pc' = "idle"
  /\ sent' = Absent
  /\ UNCHANGED <<setting, turn, body, mode, affinity, replyVars>>

\* A 2xx; the client asked for a stream and gets one, or a whole body.
StreamStarts ==
  /\ pc = "forward"
  /\ body.stream
  /\ pc' = "stream"
  /\ sent' = Absent
  /\ \E ending \in BOOLEAN : crlf' = ending
  /\ UNCHANGED <<setting, turn, body, mode, affinity, pending, usageBuf, arrived, usage>>

\* writeUpstream after io.ReadAll: the events of the body all go to the parser.
WholeBody ==
  /\ pc = "forward"
  /\ \E e \in Events :
       /\ arrived' = <<e>>
       /\ usage' = ParseUsage(body.endpoint, DataPayloads(<<e>>, crlf))
  /\ pc' = "idle"
  /\ sent' = Absent
  /\ UNCHANGED <<setting, turn, body, mode, affinity, crlf, pending, usageBuf>>

-----------------------------------------------------------------------------
(* teeStream.                                                               *)

\* The lines of an event, as far as they come, are passed on and collected.
EventLines(e) ==
  /\ pc = "stream" /\ pending = Absent
  /\ Len(arrived) < MaxEvents
  /\ pending' = e
  /\ arrived' = Append(arrived, e)
  /\ UNCHANGED <<setting, turn, body, mode, sent, affinity, pc, crlf, usageBuf, usage>>

\* flushEvent: only an event that mentions usage is kept for the parser.
FlushEvent ==
  IF pending # Absent /\ pending.mentions THEN Append(usageBuf, pending) ELSE usageBuf

EmptyLine ==
  /\ pc = "stream" /\ pending # Absent
  /\ usageBuf' = FlushEvent
  /\ pending' = Absent
  /\ UNCHANGED <<setting, turn, body, mode, sent, affinity, pc, crlf, arrived, usage>>

\* The stream ends, by itself or because the relay or the client is gone.
StreamEnds ==
  /\ pc = "stream"
  /\ usageBuf' = FlushEvent
  /\ usage' = ParseUsage(body.endpoint, DataPayloads(usageBuf', crlf))
  /\ pending' = Absent
  /\ pc' = "idle"
  /\ UNCHANGED <<setting, turn, body, mode, sent, affinity, crlf, arrived>>

ExchangeNext ==
  \/ \E value \in Modes \cup {Absent} : PutSetting(value)
  \/ FirstTurn \/ LaterTurn
  \/ NoAnswer \/ StreamStarts \/ WholeBody
  \/ \E e \in Events : EventLines(e)
  \/ EmptyLine \/ StreamEnds

ExchangeSpec == ExchangeInit /\ [][ExchangeNext]_exchangeVars

-----------------------------------------------------------------------------
(* Properties.                                                              *)

IsSent == sent # Absent

ExchangeTypeOK ==
  /\ setting \in Modes \cup {Absent}
  /\ turn \in 0 .. MaxTurns
  /\ turn = 0 <=> body = Absent
  /\ mode \in Modes
  /\ IsSent <=> pc = "forward"
  /\ pc \in {"idle", "forward", "stream"}
  /\ crlf \in BOOLEAN
  /\ pending \in Events \cup {Absent}
  /\ usageBuf \in Seq(Events)
  /\ arrived \in Seq(Events) /\ Len(arrived) <= MaxEvents
  /\ usage \in [Counts -> Nat]

\* What the client meant as system, in the order the relay is to see it.
ClientSystem == HoistSystem(body).system

\* The text that the relay sees: of a bare string as of a block.
RelayText(block) == IF block.kind = "other" THEN <<>> ELSE block.text

RelayLen(system) ==
  Total([i \in DOMAIN system |-> Bytes(RelayText(system[i]))], Len(system))

RelayHasFingerprint(system) ==
  \E i \in DOMAIN system : Holds(RelayText(system[i]), Fingerprint)

\* The system goes out as the client sent it, a list with the fingerprint in a
\* block and with bare strings, which systemLen counts as nothing.
Overlooked ==
  /\ Hoisted(body.messages) = <<>>
  /\ HasFingerprint(body.system)
  /\ SystemLen(body.system) <= SystemByteLimit
  /\ \E i \in DOMAIN body.system : body.system[i].kind = "bare"

\* Relaxed mode cuts what stands behind the first block, or behind other text in
\* it, and the client's own fingerprint stands there.
CutOff ==
  /\ mode = "relaxed"
  /\ HasFingerprint(ClientSystem)
  /\ ~IsPrefix(Fingerprint, BlockText(ContentBlocks(ClientSystem)[1]))

\* PROTOCOL.md, claude models need the fingerprint and at most 200 bytes of
\* system, as the relay reads them: however the client spreads its own over
\* blocks and messages, the relay gets both but for the two cases that the next
\* two properties are about.
ClaudeAccepted ==
  IsSent /\ Family(sent) = "claude" =>
    /\ RelayLen(sent.system) <= SystemByteLimit \/ Overlooked
    /\ RelayHasFingerprint(sent.system) \/ CutOff

\* PROTOCOL.md, with the fingerprint the whole system has at most 200 bytes.  It
\* has more when systemLen overlooks a bare string of a list.
LimitKept ==
  IsSent /\ Family(sent) = "claude" => RelayLen(sent.system) <= SystemByteLimit

\* normalize.go of the relaxed cut, the fingerprint is at the head and so is kept
\* whole.  It is not at the head when the client brings it behind other text.
FingerprintKept ==
  IsSent /\ Family(sent) = "claude" => RelayHasFingerprint(sent.system)

\* Normalising is done once: a gateway behind this one, whatever disguise it
\* uses, or a client that sends the normalised body back, finds nothing to do.
SecondPassIdle ==
  IsSent /\ sent.prefixed = 0 /\ (Family(sent) = "claude" => HasFingerprint(sent.system)) =>
    \A m \in Modes : Normalized(sent, m) = sent

\* The conversation itself is not touched, but that an input string is wrapped:
\* its turns reach the relay complete and in order, and what is a system message
\* there has nothing in it.
TurnsIntact ==
  IsSent =>
    /\ Kept(sent.messages) = Kept(WrapInput(body).messages)
    /\ body.endpoint = "messages" => Hoisted(sent.messages) = <<>>

\* Whether the part of the conversation that the hash takes in was there from
\* the first turn on.  At /v1/responses that is the head of the whole input.
HeadIsSettled(b) ==
  IF b.endpoint = "responses" THEN Bytes(MessagesJson(b.messages)) > HeadBytes
  ELSE Kept(b.messages) # <<>>

\* The client sends its input string again as a message that is not the one the
\* gateway had made of it.
Reworded ==
  /\ body.bare
  /\ ~IsPrefix(WrapInput(body).messages, body'.messages)

\* All turns of a conversation have one affinity key, and so one account, also
\* when the disguise is changed between them, provided it cuts nothing.
KeyHolds ==
  [][turn' > turn /\ turn > 0 =>
       \/ affinity' = affinity
       \/ ~HeadIsSettled(WrapInput(body))
       \/ Reworded
       \/ Hoisted(body'.messages) # Hoisted(body.messages)
       \/ mode' # mode /\ SystemLen(InjectFingerprint(HoistSystem(body)).system) > SystemByteLimit]_exchangeVars

\* PROTOCOL.md and affinityKey, the key is a hash of the model, the system and
\* the first message: turns that agree in these have one key.  At /v1/responses
\* the hash takes in what follows the first message too.
FirstMessageDecides ==
  [][turn' > turn /\ turn > 0 =>
       \/ affinity' = affinity
       \/ body.bare \/ Kept(body.messages) = <<>>
       \/ Hoisted(body'.messages) # Hoisted(body.messages)
       \/ mode' # mode]_exchangeVars

\* The tokens logged are, count by count, the largest that any complete event
\* of the reply gave, wherever the stream broke off and in whatever order they
\* came: what the tee leaves out held none.
UsageComplete ==
  LET given == {i \in DOMAIN arrived : Counted(body.endpoint, arrived[i])}
      mentioned == {i \in DOMAIN arrived : arrived[i].mentions}
  IN  pc = "idle" /\ arrived # <<>> /\ (~crlf \/ Cardinality(mentioned) <= 1) =>
        \A c \in Counts :
          /\ \A i \in given : usage[c] >= UsageOf(body.endpoint, arrived[i])[c]
          /\ usage[c] = 0 \/ \E i \in given : usage[c] = UsageOf(body.endpoint, arrived[i])[c]
=============================================================================
