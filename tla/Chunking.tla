------------------------------ MODULE Chunking ------------------------------
(***************************************************************************)
(* StructuralChunker (knowledge/chunking/structural.rs): how a document is *)
(* cut into the chunks an index holds.  One action per arm of the match on *)
(* a block; the pages of a PDF are documents of their own but for the      *)
(* numbering, and a JSON value is a list of items.                         *)
(*                                                                         *)
(* A block is known by its place in the document and has parts, its lines, *)
(* sentences or rows.  Of a text there are its characters and words, which *)
(* its tokens are estimated from; identifiers and hashes are left out:     *)
(* chunk n of a document has position n - 1.  A JSON chunk has no path.    *)
(***************************************************************************)
EXTENDS Integers, Sequences, SequencesExt, FiniteSets

CONSTANTS
    Documents,     \* sequences of blocks
    TargetTokens, MaxTokens, MinTokens

ASSUME TokensAssumption ==
    {TargetTokens, MaxTokens, MinTokens} \subseteq Nat

Separators == {"heading", "page"}
Kinds == Separators \cup {"code", "paragraph", "table", "list", "item"}

\* A part has blanks before and after it, which a split paragraph leaves out at
\* the ends of a piece; glued, its first word goes on the last one of the part
\* before it ("example.com").  The tail of a block is what a split does not see:
\* the blanks of a paragraph behind its last sentence, an empty line at the end
\* of code.  A fence is put around code.
Texts == [chars : Nat, words : Nat]
PartsThere ==
    {p \in [chars : Nat, words : Nat, before : Nat, after : Nat, glued : {0, 1}] :
        p.glued <= p.words /\ p.words <= p.chars}

ASSUME DocumentsAssumption ==
    Documents \subseteq
        Seq([kind : Kinds, level : Nat, parts : Seq(PartsThere), tail : Nat, fence : Texts])

VARIABLES document,
          next,      \* the block to look at
          path,      \* current_heading_path, as places of headings
          group,     \* current_block_group, as places of blocks
          tokens,    \* current_tokens
          chunks     \* [path, blocks, parts, texts, tokens]: the parts <<block, part>>
                     \* it holds, the texts it is joined from, its token_count

chunking == <<document, next, path, group, tokens, chunks>>

Sum(sizes) ==
    LET sum[n \in 0 .. Len(sizes)] == IF n = 0 THEN 0 ELSE sum[n - 1] + sizes[n]
    IN  sum[Len(sizes)]

\* ApproximateTokenizer.count
Ceiling(n, d) == (n + d - 1) \div d
Estimate(text) ==
    IF text.chars = 0 THEN 0
    ELSE IF text.words = 0 THEN 1
    ELSE (Ceiling(text.chars, 4) + Ceiling(4 * text.words, 3)) \div 2

Part(q) == document[q[1]].parts[q[2]]
Alone(q) == [chars |-> Part(q).chars, words |-> Part(q).words, fence |-> [chars |-> 0, words |-> 0]]

\* Some parts of a block that follow one another, as one text: sentences as they
\* are, lines with an end of line between them.
Joined(parts) ==
    [chars |-> Sum([i \in DOMAIN parts |-> Part(parts[i]).chars +
                       (IF i = 1 \/ document[parts[i][1]].kind = "paragraph" THEN 0 ELSE 1)]),
     words |-> Sum([i \in DOMAIN parts |-> Part(parts[i]).words -
                       (IF i = 1 THEN 0 ELSE Part(parts[i]).glued)])]

TextOfBlock(b) == [p \in DOMAIN document[b].parts |-> <<b, p>>]
PartsOf(blocks) == FlattenSeq([i \in DOMAIN blocks |-> TextOfBlock(blocks[i])])

Whole(b) ==
    LET text == Joined(TextOfBlock(b)) IN
    [chars |-> text.chars + document[b].tail, words |-> text.words, fence |-> document[b].fence]

\* Blocks and parts are each counted alone, and the counts are added.
Size(b) == Estimate(Whole(b))
Sizes(blocks) == Sum([i \in DOMAIN blocks |-> Size(blocks[i])])
SizeOf(parts) == Sum([i \in DOMAIN parts |-> Estimate(Alone(parts[i]))])

\* A block that is too long, in runs of parts of at most TargetTokens.
AddPart(runs, b, p) ==
    IF runs # << >> /\ SizeOf(Append(Last(runs), <<b, p>>)) <= TargetTokens
    THEN [runs EXCEPT ![Len(runs)] = Append(@, <<b, p>>)]
    ELSE Append(runs, <<<<b, p>>>>)

Runs(b) ==
    LET runs[p \in 0 .. Len(document[b].parts)] ==
            IF p = 0 THEN << >> ELSE AddPart(runs[p - 1], b, p)
    IN  runs[Len(document[b].parts)]

\* The text of a piece is trimmed, and counted again.
Trimmed(parts) ==
    LET text == Joined(parts) IN
    [chars |-> text.chars - Part(Head(parts)).before - Part(Last(parts)).after, words |-> text.words]

Pieces(b) ==
    [i \in DOMAIN Runs(b) |->
        [path |-> path, blocks |-> <<b>>, parts |-> Runs(b)[i],
         texts |-> [k \in DOMAIN Runs(b)[i] |-> Alone(Runs(b)[i][k])],
         tokens |-> Estimate(Trimmed(Runs(b)[i]))]]

\* The texts of a chunk in their fences, with an empty line between them.
Combined(texts) ==
    [chars |-> Sum([i \in DOMAIN texts |->
                       texts[i].chars + texts[i].fence.chars + (IF i = 1 THEN 0 ELSE 2)]),
     words |-> Sum([i \in DOMAIN texts |-> texts[i].words + texts[i].fence.words])]

\* What build_chunk_from_blocks makes of the group, which it counts again as one
\* text; a JSON chunk has the sum of its items.
Chunk ==
    LET texts == [i \in DOMAIN group |-> Whole(group[i])] IN
    [path |-> path, blocks |-> group, parts |-> PartsOf(group), texts |-> texts,
     tokens |-> IF \E i \in DOMAIN group : document[group[i]].kind = "item" THEN tokens
                ELSE Estimate(Combined(texts))]

Flushed == IF group = << >> THEN << >> ELSE <<Chunk>>

-----------------------------------------------------------------------------
ChunkingInit ==
    /\ document \in Documents
    /\ next = 1
    /\ path = << >> /\ group = << >> /\ tokens = 0 /\ chunks = << >>

Block(kinds) ==
    /\ next <= Len(document)
    /\ document[next].kind \in kinds
    /\ next' = next + 1
    /\ document' = document

Keep ==
    /\ group' = Append(group, next)
    /\ tokens' = tokens + Size(next)
    /\ UNCHANGED <<path, chunks>>

StartWith(blocks) ==
    /\ chunks' = chunks \o Flushed
    /\ group' = blocks
    /\ tokens' = Sizes(blocks)

\* The headings above a heading: the path, cut to its level if it is that long.
Above(level) == SubSeq(path, 1, IF Len(path) >= level THEN level - 1 ELSE Len(path))

\* Variant for the mutants: a heading leaves the group as it is.
HeadingInside ==
    /\ Block({"heading"})
    /\ path' = Append(Above(document[next].level), next)
    /\ UNCHANGED <<group, tokens, chunks>>

Heading ==
    /\ Block({"heading"})
    /\ path' = Append(Above(document[next].level), next)
    /\ StartWith(<< >>)

Oversized ==
    /\ Block({"code", "paragraph"})
    /\ Size(next) > MaxTokens
    /\ chunks' = chunks \o Flushed \o Pieces(next)
    /\ group' = << >> /\ tokens' = 0
    /\ UNCHANGED path

Code ==
    /\ Block({"code"})
    /\ Size(next) <= MaxTokens
    /\ IF tokens + Size(next) > MaxTokens THEN StartWith(<<next>>) /\ UNCHANGED path ELSE Keep

TableOrList ==
    /\ Block({"table", "list"})
    /\ IF tokens + Size(next) > MaxTokens THEN StartWith(<<next>>) /\ UNCHANGED path ELSE Keep

\* Variant for the mutants: the paragraph that opens a new group is left out.
ParagraphLost ==
    /\ Block({"paragraph"})
    /\ Size(next) <= MaxTokens
    /\ IF tokens + Size(next) > TargetTokens /\ tokens >= MinTokens
       THEN StartWith(<< >>) /\ UNCHANGED path
       ELSE Keep

\* Variant for the mutants: however short, the group is not closed by a
\* paragraph.
ParagraphKept ==
    /\ Block({"paragraph"})
    /\ Size(next) <= MaxTokens
    /\ Keep

\* A group that is still short takes the paragraph, even beyond MaxTokens; here
\* the group is not asked whether it is empty.
Paragraph ==
    /\ Block({"paragraph"})
    /\ Size(next) <= MaxTokens
    /\ IF tokens + Size(next) > TargetTokens /\ tokens >= MinTokens
       THEN /\ chunks' = Append(chunks, Chunk)
            /\ group' = <<next>> /\ tokens' = Size(next)
            /\ UNCHANGED path
       ELSE Keep

\* An item of a JSON array, a pair of a JSON object, or a JSON scalar.
Item ==
    /\ Block({"item"})
    /\ IF tokens + Size(next) > TargetTokens THEN StartWith(<<next>>) /\ UNCHANGED path ELSE Keep

\* The end of a page of a PDF; the next starts without headings.
NextPage ==
    /\ Block({"page"})
    /\ path' = << >>
    /\ StartWith(<< >>)

End ==
    /\ next = Len(document) + 1
    /\ next' = next + 1
    /\ StartWith(<< >>)
    /\ UNCHANGED <<document, path>>

ChunkingNext ==
    \/ Heading \/ Oversized \/ Code \/ TableOrList \/ Paragraph \/ Item
    \/ NextPage \/ End

ChunkingSpec == ChunkingInit /\ [][ChunkingNext]_chunking

-----------------------------------------------------------------------------
\* The first n blocks, without headings and page ends.
Spoken(n) ==
    LET spoken[k \in 0 .. Len(document)] ==
            IF k = 0 THEN << >>
            ELSE IF document[k].kind \in Separators THEN spoken[k - 1] ELSE Append(spoken[k - 1], k)
    IN  spoken[n]

LookedAt == IF next > Len(document) THEN Len(document) ELSE next - 1

\* Every part of the document that was looked at is in one chunk or in the open
\* group, once, in the order of the document, also where a block was split;
\* only headings are in no chunk.
NothingLost ==
    FlattenSeq([c \in DOMAIN chunks |-> chunks[c].parts]) \o PartsOf(group) = PartsOf(Spoken(LookedAt))

\* A size is within a limit, or a short group has taken a paragraph, or it is of
\* what the chunker does not split: a table, a list, an item of a JSON value, or
\* a single line or sentence.
Bounded(size, blocks, parts) ==
    \/ size <= TargetTokens \/ size <= MaxTokens
    \/ size < MaxTokens + MinTokens
    \/ Len(parts) = 1
    \/ Len(blocks) = 1 /\ document[blocks[1]].kind \in {"table", "list", "item"}

Counted(texts) == Sum([i \in DOMAIN texts |-> Estimate(texts[i])])

\* The tokens of what the count of a text alone does not see: its fence, and that
\* it has more than one character when it is blank.
Unseen(text) ==
    LET blank == IF text.words = 0 THEN text.chars ELSE 0
    IN  Ceiling(3 * (text.fence.chars + blank) + 16 * text.fence.words, 24)

\* What the token_count of a chunk may come to: three tokens more for four texts,
\* which the rounding of each alone and the empty lines between them make.
Allowed(texts) ==
    Sum([i \in DOMAIN texts |-> Estimate(texts[i]) + Unseen(texts[i])]) + (3 * Len(texts) + 1) \div 4

\* No chunk is empty, when MinTokens is not 0, and what the chunker counts of it
\* is within its bound, whatever the three limits are: nothing in the
\* configuration relates them (config.rs).  Its token_count, of the joined text
\* (structural.rs 512-513), may be higher, as the estimate (tokenizer.rs 10-26)
\* does not add up, but only by what is allowed.
ChunksBounded ==
    \A c \in DOMAIN chunks :
       /\ MinTokens = 0 \/ chunks[c].blocks # << >>
       /\ Bounded(Counted(chunks[c].texts), chunks[c].blocks, chunks[c].parts)
       /\ chunks[c].tokens <= Allowed(chunks[c].texts)

\* A chunk lies between two headings, or page ends, that follow one another,
\* and its path ends with the first of them.
SeparatorsBefore(b) == {h \in 1 .. b - 1 : document[h].kind \in Separators}

EndsWith(section, last) ==
    \A h \in last : (\A g \in last : g <= h) =>
        IF document[h].kind = "page" THEN section = << >>
        ELSE section # << >> /\ Last(section) = h

SectionsKept ==
    \A c \in DOMAIN chunks : \A i \in DOMAIN chunks[c].blocks :
       /\ SeparatorsBefore(chunks[c].blocks[i]) = SeparatorsBefore(chunks[c].blocks[1])
       /\ EndsWith(chunks[c].path, SeparatorsBefore(chunks[c].blocks[i]))
=============================================================================
