------------------------------- MODULE Chunker -------------------------------
(***************************************************************************)
(* How a document becomes chunks: MarkdownChunker.  A document is a        *)
(* sequence of lines: blank, text, an item of a list or table, a heading   *)
(* with its level, or a fence.  What a line says is pieces (sentences, or  *)
(* the line in a fence) that are never cut.  Lines make blocks, and blocks *)
(* make chunks.                                                            *)
(***************************************************************************)
EXTENDS SequencesExt

CONSTANTS
    Pieces,         \* the texts there are
    Size,           \* their sizes in (estimated) tokens
    Target,         \* chunk_target_tokens
    Overlap         \* chunk_overlap_tokens

ASSUME ChunkerAssumption ==
    /\ Pieces \subseteq Nat \ {0}
    /\ Size \in [Pieces -> Nat \ {0}]
    /\ Target \in Nat /\ Overlap \in Nat /\ Overlap < Target

(* Those elements of a sequence that are in a set, in their order.         *)
Those(seq, S) ==
    FoldLeft(LAMBDA kept, x : IF x \in S THEN Append(kept, x) ELSE kept, <<>>, seq)

Tokens(pieces) == FoldLeft(LAMBDA sum, p : sum + Size[p], 0, pieces)

TokensOf(blocks) == FoldLeft(LAMBDA sum, b : sum + Tokens(b.pieces), 0, blocks)

Fences == {"backticks", "tildes"}

(* The lines there are: a heading, and nothing else, has a level; a blank  *)
(* line says nothing.                                                      *)
Lines ==
    {line \in [kind : {"blank", "text", "item", "heading"} \cup Fences,
               level : 0..6, pieces : Seq(Pieces)] :
        /\ line.kind = "heading" <=> line.level > 0
        /\ line.kind = "blank" => line.pieces = <<>>}

Block(lines, level, code, path) ==
    [pieces |-> FlattenSeq([i \in DOMAIN lines |-> lines[i].pieces]),
     level |-> level, code |-> code, section |-> path]

(* flush_paragraph                                                         *)
Flush(reader) ==
    IF reader.pending = <<>> THEN reader
    ELSE [reader EXCEPT !.blocks = Append(@, Block(reader.pending, 0, FALSE, reader.path)),
                        !.pending = <<>>]

CloseFence(reader) ==
    IF reader.code = <<>> THEN reader
    ELSE [reader EXCEPT !.blocks = Append(@, Block(reader.code, 0, TRUE, reader.path)),
                        !.code = <<>>, !.fence = "none"]

(* The path is cut to the heading's level, by position, and extended; the  *)
(* heading is in its own section.                                          *)
ReadHeading(reader, line) ==
    LET kept == SubSeq(reader.path, 1, Min({line.level - 1, Len(reader.path)}))
        path == kept \o line.pieces
    IN  [reader EXCEPT !.path = path,
                       !.blocks = Append(@, Block(<<line>>, line.level, FALSE, path))]

(* One line of a document.  In a fence only its own mark means anything;   *)
(* an item of a list begins a paragraph when prose precedes it.            *)
ReadLine(reader, line) ==
    CASE reader.fence # "none" ->
             LET longer == [reader EXCEPT !.code = Append(@, line)]
             IN  IF line.kind = reader.fence THEN CloseFence(longer) ELSE longer
      [] reader.fence = "none" /\ line.kind \in Fences ->
             [Flush(reader) EXCEPT !.fence = line.kind, !.code = <<line>>]
      [] reader.fence = "none" /\ line.kind = "heading" -> ReadHeading(Flush(reader), line)
      [] reader.fence = "none" /\ line.kind = "blank" -> Flush(reader)
      [] reader.fence = "none" /\ line.kind \in {"text", "item"} ->
             LET prose == reader.pending # <<>> /\ Last(reader.pending).kind = "text"
             IN  [(IF line.kind = "item" /\ prose THEN Flush(reader) ELSE reader)
                     EXCEPT !.pending = Append(@, line)]

Unread == [blocks |-> <<>>, path |-> <<>>, pending |-> <<>>, fence |-> "none", code |-> <<>>]

Read(lines) == FoldLeft(ReadLine, Unread, lines)

(* A fence nobody closed still holds its text.                             *)
Blocks(lines) == Flush(CloseFence(Read(lines))).blocks

(* Pieces are packed greedily, and one that is too large stays alone.      *)
Pack(pieces) ==
    FoldLeft(LAMBDA packs, p :
                 IF packs # <<>> /\ Tokens(Append(Last(packs), p)) <= Target
                 THEN Append(Front(packs), Append(Last(packs), p))
                 ELSE Append(packs, <<p>>),
             <<>>, pieces)

(* A block larger than a whole chunk is broken, and is no heading any more.*)
SplitOversized(block) ==
    IF Tokens(block.pieces) <= Target THEN <<block>>
    ELSE LET packs == Pack(block.pieces)
         IN  [i \in 1..Len(packs) |-> [block EXCEPT !.pieces = packs[i], !.level = 0]]

(* The last n blocks of a chunk.                                           *)
LastBlocks(blocks, n) == SubSeq(blocks, Len(blocks) - n + 1, Len(blocks))

(* Bug: a block is carried whatever its size.                              *)
CarryLast(blocks) == LastBlocks(blocks, 1)

(* The blocks at the end of a finished chunk that the next one repeats: as *)
(* many as the overlap affords, and never a code fence.                    *)
CarryOver(blocks) ==
    LET Affordable(n) == LET carried == LastBlocks(blocks, n)
                         IN  /\ TokensOf(carried) <= Overlap
                             /\ \A i \in 1..n : ~ carried[i].code
    IN  LastBlocks(blocks, CHOOSE n \in 0..Len(blocks) :
                                Affordable(n) /\ (n < Len(blocks) => ~ Affordable(n + 1)))

(* A new section starts a chunk, unless what there is would make a poor    *)
(* chunk on its own; and so does a block that does not fit.                *)
StartsChunk(current, block) ==
    \/ block.level \in {1, 2} /\ TokensOf(current) >= Target \div 2
    \/ current # <<>> /\ TokensOf(current) + Tokens(block.pieces) > Target

(* What _emit joins: paragraphs, and before those of a chunk that does not *)
(* begin with its heading a breadcrumb, the title of its document and the  *)
(* path of the first section there is, as negative numbers.                *)
Content(title, blocks) ==
    LET paths == [i \in DOMAIN blocks |-> blocks[i].section]
        sections == Those(paths, ToSet(paths) \ {<<>>})
        crumbs == <<title>> \o (IF sections = <<>> THEN <<>> ELSE Head(sections))
    IN  (IF blocks[1].level = 0 THEN <<[i \in DOMAIN crumbs |-> 0 - crumbs[i]]>> ELSE <<>>)
            \o [i \in DOMAIN blocks |-> blocks[i].pieces]

IsWithin(part, whole) ==
    \E i \in 0..(Len(whole) - Len(part)) : SubSeq(whole, i + 1, i + Len(part)) = part

(* A last chunk that says nothing its predecessor did not is dropped.      *)
WithoutRedundant(contents) ==
    IF /\ Len(contents) > 1
       /\ IsWithin(FlattenSeq(Last(contents)), FlattenSeq(contents[Len(contents) - 1]))
    THEN Front(contents)
    ELSE contents

(* One more block for the current chunk, or the first of the next.         *)
AddBlock(acc, block) ==
    IF StartsChunk(acc.current, block)
    THEN [done |-> Append(acc.done, acc.current),
          current |-> Append(CarryOver(acc.current), block)]
    ELSE [acc EXCEPT !.current = Append(@, block)]

Assembled(blocks) == FoldLeft(AddBlock, [done |-> <<>>, current |-> <<>>], blocks)

(* No block is larger than a chunk unless its only piece is.               *)
Pieced(blocks) == FlattenSeq([i \in DOMAIN blocks |-> SplitOversized(blocks[i])])

(* The contents of the chunks, in order.                                   *)
Chunks(title, document) ==
    LET blocks == Pieced(Blocks(document))
        last == Assembled(blocks)
        chunks == Append(last.done, last.current)
    IN  IF blocks = <<>> THEN <<>>
        ELSE WithoutRedundant([n \in DOMAIN chunks |-> Content(title, chunks[n])])
=============================================================================
