----------------------------- MODULE MCExchange -----------------------------
(* Small bodies and replies for Exchange: one-byte and two-byte characters,  *)
(* a fingerprint of two bytes, and a limit that leaves room for two more.    *)
EXTENDS Exchange

CONSTANTS f, g, a, u

MCGlyphs == {f, g, a, u}
MCWidth == [c \in MCGlyphs |-> IF c = u THEN 2 ELSE 1]
MCFingerprint == <<f, g>>

TextBlocks ==
  {TextBlock(t) : t \in {<<>>, <<a>>, <<a, u>>, <<f, g>>, <<a, a, a, f, g>>}}
Blocks == TextBlocks \cup {[kind |-> "bare", text |-> <<u, a>>], [kind |-> "other", text |-> <<>>]}

Message(role, content) == [role |-> role, content |-> content]

Messages ==
  {Message("user", <<TextBlock(<<a>>)>>), Message("system", <<>>),
   Message("system", <<TextBlock(<<f, g>>)>>), Message("system", <<TextBlock(<<u>>)>>)}

Body(endpoint, family, prefixed, stream, cacheKey, bare, system, messages) ==
  [endpoint |-> endpoint, family |-> family, prefixed |-> prefixed, stream |-> stream,
   cacheKey |-> cacheKey, bare |-> bare, topP |-> endpoint # "responses",
   system |-> system, messages |-> messages]

Chat(text) == <<Message("user", <<TextBlock(text)>>)>>

InputString(text) == <<Message("user", <<[kind |-> "bare", text |-> text]>>)>>

\* What is rewritten, answered in one piece.
ToMessages ==
  {Body("messages", model[1], model[2], FALSE, NoKey, FALSE, system, messages) :
     model \in {<<"claude", 0>>, <<"claude", 1>>, <<"third", 0>>},
     system \in BoundedSeq(Blocks, 2), messages \in BoundedSeq(Messages, 2)}

\* Routes, keys and input strings.
ToAny ==
  {Body(endpoint, family, prefixed, FALSE, cacheKey, bare, <<>>,
        IF bare THEN InputString(text) ELSE Chat(text)) :
     endpoint \in Endpoints, family \in Families, prefixed \in 0 .. 2,
     cacheKey \in {NoKey, "key"}, bare \in BOOLEAN, text \in {<<a>>, <<a, u, a>>}}

\* Replies in events.
Streamed ==
  {Body(endpoint, "third", 0, TRUE, NoKey, FALSE, <<>>, Chat(<<a>>)) : endpoint \in Endpoints}

MCBodies ==
  ToMessages \cup {b \in ToAny : b.bare => b.endpoint = "responses"} \cup Streamed

MCAdditions == {Message("user", <<TextBlock(<<a>>)>>), Message("system", <<TextBlock(<<a>>)>>)}

Tokens(input, output) == [input |-> input, output |-> output, cached |-> 0]
Event(whole, mentions, outer, inner) ==
  [whole |-> whole, mentions |-> mentions, outer |-> outer, inner |-> inner]

\* message_start, message_delta, a text delta, a usage of null, a broken event.
MCEvents ==
  {Event(TRUE, TRUE, NoUsage, Tokens(2, 1)), Event(TRUE, TRUE, Tokens(0, 2), NoUsage),
   Event(TRUE, FALSE, NoUsage, NoUsage), Event(FALSE, TRUE, Tokens(3, 3), NoUsage)}
=============================================================================
