---------------------------- MODULE OracleWorker ----------------------------
(***************************************************************************)
(* experiments/stage6_5/6_5c_bank_overlap/src/oracle_bank_worker.c: a      *)
(* process that reads only lines of one bank class.  It classifies blocks  *)
(* as large as the lowest mask bit allows, and gives the pages in which it *)
(* found no such block back to the kernel.                                 *)
(***************************************************************************)
EXTENDS OracleSteps, OracleClasses

Pools == <<"worker">>

\* The arguments that are accepted.
parse_args(cfg) == cfg.workset > 0

load_mapping == <<Step("mapping", "main"), Step("class", "main"), Step("granularity", "main")>>
SelectLines == <<Step("scan", "worker"), Step("capacity", "worker")>>
LinkLines == <<Step("release", "worker"), Step("shuffle", "worker"), Step("chain", "worker")>>
setup == load_mapping \o SelectLines \o LinkLines
loop == <<Step("run", "main")>>
verify == <<>>

\* The unit is a cache line: bit 0 is the lowest bit of a line's number,
\* and bits below it are negative.
find_minimum_mask_bit(masks) == Min(UNION Range(masks))

\* A block is at least a line, at most a page, and the selection is a
\* whole number of blocks.
GranularityRefused(masks, width, lines) ==
    LET bit == find_minimum_mask_bit(masks)
    IN  bit < 0 \/ bit > width \/ lines % Pow2[bit] # 0

\* The blocks of one page whose class is the target, as many as are wanted.
BlocksOf(page, masks, width, target, wanted) ==
    LET size == Pow2[find_minimum_mask_bit(masks)]
        blocks == [b \in 1..(Pow2[width] \div size) |-> (b - 1) * size]
        found == Matching(blocks, LAMBDA b : BankClass(masks, page \cup Offset(b, width)) = target)
    IN  SubSeq(found, 1, Min({wanted, Len(found)}))

\* Defect: the lines are those of the page after.
Bug_NextPage(p, blocks, masks) ==
    [b \in 1..Len(blocks) |-> <<p + 1, blocks[b]>>]

\* Every line of the blocks found in page p.
LinesOf(p, blocks, masks) ==
    LET size == Pow2[find_minimum_mask_bit(masks)]
    IN  [i \in 1..Len(blocks) * size |-> <<p, blocks[((i - 1) \div size) + 1] + ((i - 1) % size)>>]

\* Defect: the last page that was scanned is given back too.
Bug_ReleaseLast(scanned, keep_page) == (1..scanned) \ {p \in keep_page : p < scanned}

\* The pages given back: those scanned that hold no selected block.
release_unselected_pages(scanned, keep_page) == (1..scanned) \ keep_page

shuffle_lines(lines) == shuffle(lines, 1)
=============================================================================
