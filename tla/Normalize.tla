------------------------------ MODULE Normalize -----------------------------
(***************************************************************************)
(* How a request body is rewritten before it goes to the relay:              *)
(* internal/gateway/normalize.go.  A text is a sequence of glyphs, each of   *)
(* which takes up some bytes; Fingerprint is the identity line that the      *)
(* relay demands of claude models, SystemByteLimit the most that it takes    *)
(* beside it.  Fields that are only handed on are left out of a body.        *)
(***************************************************************************)
EXTENDS Integers, FiniteSets, SequencesExt

CONSTANTS
  Glyphs,           \* characters
  Width,            \* the bytes of each in UTF-8
  Fingerprint,      \* claudeFingerprint
  SystemByteLimit,  \* systemByteLimit
  HeadBytes,        \* how much of a JSON value goes into the affinity hash
  NoKey             \* no prompt_cache_key

Families == {"claude", "gpt", "third"}
Endpoints == {"messages", "responses", "chat"}
Modes == {"relaxed", "strict"}
Marks == {"open", "comma", "close"}

-----------------------------------------------------------------------------
(* Texts and blocks.  A block is a text block, a bare string in a list, or   *)
(* something else, which has no text.  A system that is one string is a list *)
(* of one text block, since both are measured; the content of a message that *)
(* is one string is a list of one bare string; nil is the empty list.        *)

\* The sum of the first n numbers of f.
Total(f, n) ==
  LET total[i \in 0 .. n] == IF i = 0 THEN 0 ELSE total[i - 1] + f[i]
  IN  total[n]

\* What is no character of a text is a mark of JSON, which takes one byte.
Widths(text) == [i \in DOMAIN text |-> IF text[i] \in Glyphs THEN Width[text[i]] ELSE 1]

Bytes(text) == Total(Widths(text), Len(text))

ASSUME NormalizeAssumption ==
  /\ Width \in [Glyphs -> 1 .. 4]
  /\ Fingerprint \in Seq(Glyphs) /\ Fingerprint # <<>>
  /\ SystemByteLimit \in Nat
  /\ Bytes(Fingerprint) <= SystemByteLimit
  /\ Marks \cap Glyphs = {}
  /\ HeadBytes \in Nat

\* Mutant: the character that straddles the limit is kept.
CutAfter(text, n) ==
  CHOOSE p \in Prefixes(text) :
    /\ p = text \/ Bytes(p) >= n
    /\ \A q \in Prefixes(text) : q = text \/ Bytes(q) >= n => Len(p) <= Len(q)

\* text[:n], less the bytes of a character that n falls inside.
Cut(text, n) ==
  CHOOSE p \in Prefixes(text) :
    /\ Bytes(p) <= n
    /\ \A q \in Prefixes(text) : Bytes(q) <= n => Len(q) <= Len(p)

Holds(text, part) ==
  \E i \in 0 .. Len(text) - Len(part) : SubSeq(text, i + 1, i + Len(part)) = part

BlockType == [kind : {"text", "bare", "other"}, text : Seq(Glyphs)]

TextBlock(text) == [kind |-> "text", text |-> text]

ContentBlocks(content) ==
  [i \in DOMAIN content |->
     IF content[i].kind = "bare" THEN TextBlock(content[i].text) ELSE content[i]]

BlockText(block) == IF block.kind = "text" THEN block.text ELSE <<>>

HasFingerprint(system) ==
  \E i \in DOMAIN system : Holds(BlockText(system[i]), Fingerprint)

SystemLen(system) ==
  Total([i \in DOMAIN system |-> Bytes(BlockText(system[i]))], Len(system))

\* One round of truncateSystemBlocks: what the block before left is filled
\* from the head of the next one.
TruncateBlock(kept, block) ==
  LET text == Cut(BlockText(block), kept.remaining)
  IN  IF text = <<>> THEN kept
      ELSE [out |-> Append(kept.out, TextBlock(text)),
            remaining |-> kept.remaining - Bytes(text)]

TruncateSystemBlocks(blocks, limit) ==
  LET kept[i \in 0 .. Len(blocks)] ==
        IF i = 0 THEN [out |-> <<>>, remaining |-> limit]
        ELSE TruncateBlock(kept[i - 1], blocks[i])
  IN  kept[Len(blocks)].out

-----------------------------------------------------------------------------
(* Bodies.  "messages" stands for input at /v1/responses, where "bare" says  *)
(* that it is one string: a user message whose content is that string and no *)
(* block.  "prefixed" counts the routing prefixes of the model name.         *)

MessageType == [role : STRING, content : Seq(BlockType)]

BodyType ==
  [endpoint : Endpoints, family : Families, prefixed : Nat, stream : BOOLEAN,
   cacheKey : STRING \cup {NoKey}, bare : BOOLEAN, topP : BOOLEAN,
   system : Seq(BlockType), messages : Seq(MessageType)]

Family(b) == IF b.prefixed > 0 THEN "third" ELSE b.family

StripPrefix(b) == IF b.prefixed = 0 THEN b ELSE [b EXCEPT !.prefixed = @ - 1]

IsSystem(message) == message.role = "system"

\* The content of the system messages.
Hoisted(messages) ==
  LET hoisted[i \in 0 .. Len(messages)] ==
        IF i = 0 THEN <<>>
        ELSE IF IsSystem(messages[i])
        THEN hoisted[i - 1] \o ContentBlocks(messages[i].content)
        ELSE hoisted[i - 1]
  IN  hoisted[Len(messages)]

\* The other messages.
Kept(messages) ==
  LET kept[i \in 0 .. Len(messages)] ==
        IF i = 0 THEN <<>>
        ELSE IF IsSystem(messages[i]) THEN kept[i - 1]
        ELSE Append(kept[i - 1], messages[i])
  IN  kept[Len(messages)]

\* Mutant: the system messages are copied and stay in the conversation.
HoistCopies(b) ==
  IF Hoisted(b.messages) = <<>> THEN b
  ELSE [b EXCEPT !.system = ContentBlocks(@) \o Hoisted(b.messages)]

\* system messages move to the top level, in their order, behind what is there;
\* when they hold nothing they stay where they are.
HoistSystem(b) ==
  IF Hoisted(b.messages) = <<>> THEN b
  ELSE [b EXCEPT !.system = ContentBlocks(@) \o Hoisted(b.messages),
                 !.messages = Kept(@)]

StripTopP(b) == [b EXCEPT !.topP = FALSE]

\* Mutant: a fingerprint that is there already is not noticed.
InjectAlways(b) == [b EXCEPT !.system = <<TextBlock(Fingerprint)>> \o ContentBlocks(@)]

InjectFingerprint(b) ==
  IF HasFingerprint(b.system) THEN b
  ELSE [b EXCEPT !.system = <<TextBlock(Fingerprint)>> \o ContentBlocks(@)]

\* What is too long is cut, or replaced by the fingerprint alone.
Cloak(b, mode) ==
  IF SystemLen(b.system) <= SystemByteLimit THEN b
  ELSE [b EXCEPT !.system =
          IF mode = "strict" THEN <<TextBlock(Fingerprint)>>
          ELSE TruncateSystemBlocks(ContentBlocks(@), SystemByteLimit)]

NormalizeMessages(b, mode) ==
  LET hoisted == StripTopP(HoistSystem(b))
  IN  IF Family(hoisted) # "claude" THEN hoisted
      ELSE Cloak(InjectFingerprint(hoisted), mode)

Wrapped(message) == [message EXCEPT !.content = ContentBlocks(@)]

\* An input string becomes a list of one user message with one text block.
WrapInput(b) ==
  IF ~b.bare THEN b
  ELSE [b EXCEPT !.bare = FALSE,
                 !.messages = [i \in DOMAIN b.messages |-> Wrapped(b.messages[i])]]

Normalized(b, mode) ==
  LET stripped == StripPrefix(b)
  IN  CASE b.endpoint = "messages" -> NormalizeMessages(stripped, mode)
        [] b.endpoint = "responses" -> WrapInput(stripped)
        [] b.endpoint = "chat" -> stripped

\* claude models are served at /v1/messages only, gpt models at /v1/responses.
Routed(b) ==
  /\ Family(b) = "claude" => b.endpoint = "messages"
  /\ Family(b) = "gpt" => b.endpoint = "responses"

-----------------------------------------------------------------------------
(* The affinity key, of values as JSON, in which a block and a bare string   *)
(* with the same text differ.                                               *)

List(items) ==
  LET list[i \in 0 .. Len(items)] ==
        IF i = 0 THEN <<"open">>
        ELSE list[i - 1] \o (IF i = 1 THEN <<>> ELSE <<"comma">>) \o items[i]
  IN  Append(list[Len(items)], "close")

TextsOf(content) ==
  List([i \in DOMAIN content |-> <<content[i].kind>> \o content[i].text])

MessageJson(message) == TextsOf(message.content) \o <<message.role>>

MessagesJson(messages) == List([i \in DOMAIN messages |-> MessageJson(messages[i])])

\* writePrefix: the first HeadBytes of a value.  A character that they end in
\* is left out, although its first bytes are hashed too.
Opening(json) == Cut(json, HeadBytes)

\* Mutant: the hash takes the conversation in, not its first message.
KeyOfConversation(b) ==
  IF b.cacheKey # NoKey THEN <<b.cacheKey>>
  ELSE <<b.family, b.prefixed, Opening(MessagesJson(b.messages))>>

\* Of a normalised body; the hash is taken for what it hashes.
AffinityKey(b) ==
  IF b.cacheKey # NoKey THEN <<b.cacheKey>>
  ELSE LET system == IF b.system = <<>> THEN <<>> ELSE Opening(TextsOf(b.system))
           first == IF b.endpoint = "responses" THEN Opening(MessagesJson(b.messages))
                    ELSE IF b.messages = <<>> THEN <<>>
                    ELSE Opening(MessageJson(b.messages[1]))
       IN  <<b.family, b.prefixed, system, first>>
=============================================================================
