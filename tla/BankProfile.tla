----------------------------- MODULE BankProfile -----------------------------
(***************************************************************************)
(* protected-daemon/src/bank_profile.c and addr_translate.c: how many of a *)
(* process's pages lie in each DRAM bank class.  bank_profile_build walks  *)
(* /proc/[pid]/maps, samples pages of the selected regions and looks each  *)
(* up in /proc/[pid]/pagemap.  The process goes on meanwhile: what a line  *)
(* of either file says is decided when it is read, and the process may be  *)
(* gone by then.                                                           *)
(*                                                                         *)
(* Left out: byte counts and page sizes (one machine has one page size),   *)
(* pages_considered, which always equals pages_sampled, and what is only   *)
(* printed: the dominant class, the regions and pages seen.  The caller    *)
(* has made sure that the mapping is ready, so no page is skipped for it.  *)
(***************************************************************************)
EXTENDS Integers, SequencesExt

CONSTANTS
    Pids,
    Regions,               \* lines of a maps file
    PageEntries,           \* what reading a pagemap entry may give
    class_of,              \* page frame -> bank class, by the calibrated mapping
    MAX_PFN,               \* largest frame whose physical address fits in 64 bits
    BANK_PROFILE_MAX_ENTRIES,
    max_pages_to_sample, sample_stride_pages,
    MaxRegions,            \* bound: lines of one maps file
    MaxFiles               \* descriptors the daemon may have open

Region == [kind : {"anon", "heap", "stack", "file", "special"}, perms : {"rw", "r", ""}, pages : Nat]
PageEntry == [readable : BOOLEAN, present : BOOLEAN, swapped : BOOLEAN, pfn : Nat]
Unreadable == [readable |-> FALSE, present |-> FALSE, swapped |-> FALSE, pfn |-> 0]

ASSUME ProfileAssumption ==
    /\ Pids \subseteq Nat \ {0}
    /\ Regions \subseteq Region /\ PageEntries \subseteq PageEntry
    /\ BANK_PROFILE_MAX_ENTRIES \in Nat \ {0}
    /\ max_pages_to_sample \in Nat /\ sample_stride_pages \in Nat
    /\ MaxRegions \in Nat /\ MaxFiles \in Nat

VARIABLES
    kernel,        \* pid -> is there such a process, which one, when it started
    profile,       \* struct bank_profile being built, or built last
    build,         \* where bank_profile_build is
    build_files,   \* the files it has open
    stat_files     \* /proc/[pid]/stat streams the daemon has open

profVars == <<profile, build, build_files>>

Exists(pid) == kernel[pid].exists
FilesOpen == Cardinality(build_files) + stat_files

-----------------------------------------------------------------------------
(* addr_translate.c                                                        *)

\* addr_translate_va_to_pa: the return code for one entry.
TranslateCode(e) ==
    IF ~e.readable THEN "READ"
    ELSE IF ~e.present THEN IF e.swapped THEN "SWAPPED" ELSE "NOT_PRESENT"
    ELSE IF e.pfn = 0 THEN "PFN_UNAVAILABLE"
    ELSE IF e.pfn > MAX_PFN THEN "OVERFLOW" ELSE "OK"

-----------------------------------------------------------------------------
(* The histogram.                                                          *)

Skips == {"not_present", "swapped", "pfn_unavailable", "translation_error"}

bank_profile_reset ==
    [entries |-> <<>>, pages_sampled |-> 0, pages_translated |-> 0,
     skipped |-> [s \in Skips |-> 0]]

count_translation_skip(p, code) ==
    LET kind == IF code = "NOT_PRESENT" THEN "not_present"
                ELSE IF code = "SWAPPED" THEN "swapped"
                ELSE IF code = "PFN_UNAVAILABLE" THEN "pfn_unavailable"
                ELSE "translation_error"
    IN  [p EXCEPT !.skipped[kind] = @ + 1]

EntriesOf(p, class) == {i \in 1..Len(p.entries) : p.entries[i].bank_class = class}

bank_profile_count_for_class(p, class) ==
    LET found == EntriesOf(p, class)
    IN  IF found = {} THEN 0 ELSE p.entries[Min(found)].page_count

\* Defect: the array is taken to have one entry more.
Bug_AddOffByOne(p, class, count) ==
    LET found == EntriesOf(p, class)
    IN  IF count = 0 THEN [rc |-> "OK", p |-> p]
        ELSE IF found # {}
          THEN [rc |-> "OK", p |-> [p EXCEPT !.entries[Min(found)].page_count = @ + count]]
        ELSE IF Len(p.entries) > BANK_PROFILE_MAX_ENTRIES
          THEN [rc |-> "TOO_MANY_CLASSES", p |-> p]
        ELSE [rc |-> "OK",
              p |-> [p EXCEPT !.entries = Append(@, [bank_class |-> class, page_count |-> count])]]

\* The profile after the call, and its return code.
profile_add_bank_class_count(p, class, count) ==
    LET found == EntriesOf(p, class)
    IN  IF count = 0 THEN [rc |-> "OK", p |-> p]
        ELSE IF found # {}
          THEN [rc |-> "OK", p |-> [p EXCEPT !.entries[Min(found)].page_count = @ + count]]
        ELSE IF Len(p.entries) >= BANK_PROFILE_MAX_ENTRIES
          THEN [rc |-> "TOO_MANY_CLASSES", p |-> p]
        ELSE [rc |-> "OK",
              p |-> [p EXCEPT !.entries = Append(@, [bank_class |-> class, page_count |-> count])]]

bank_profile_merge_counters(dst, src) ==
    [dst EXCEPT
       !.pages_sampled = @ + src.pages_sampled,
       !.pages_translated = @ + src.pages_translated,
       !.skipped = [s \in Skips |-> @[s] + src.skipped[s]]]

\* Defect: the counters are merged once per entry.
Bug_CountersPerEntry(dst, src) ==
    LET step(acc, e) ==
            IF acc.rc # "OK" THEN acc
            ELSE profile_add_bank_class_count(bank_profile_merge_counters(acc.p, src),
                                              e.bank_class, e.page_count)
    IN  FoldLeft(step, [rc |-> "OK", p |-> dst], src.entries)

\* The entries one by one, up to the first that does not fit; the counters
\* only when all did.
bank_profile_merge(dst, src) ==
    LET after[k \in 0..Len(src.entries)] ==
            IF k = 0 THEN [rc |-> "OK", p |-> dst]
            ELSE LET before == after[k - 1]  e == src.entries[k]
                 IN  IF before.rc # "OK" THEN before
                     ELSE profile_add_bank_class_count(before.p, e.bank_class, e.page_count)
        all == after[Len(src.entries)]
    IN  IF all.rc # "OK" \/ src.entries = <<>> THEN all
        ELSE [all EXCEPT !.p = bank_profile_merge_counters(@, src)]

Smaller(a, b) == IF a < b THEN a ELSE b
Larger(a, b) == IF a > b THEN a ELSE b

\* The sum of the numbers f, as the number of the cells under its graph.
Total(f) == Cardinality(UNION {{k} \X (1..f[k]) : k \in DOMAIN f})

\* Defect: classes that only the second profile has are forgotten.
Bug_OverlapOneSided(a, b) ==
    LET count_b(k) == bank_profile_count_for_class(b, a.entries[k].bank_class)
        I == DOMAIN a.entries
    IN  [common |-> Total([k \in I |-> Smaller(a.entries[k].page_count, count_b(k))]),
         union |-> Total([k \in I |-> Larger(a.entries[k].page_count, count_b(k))])]

\* Common pages and the pages of the union; the score is their quotient.
bank_profile_overlap_score(a, b) ==
    LET count_b(k) == bank_profile_count_for_class(b, a.entries[k].bank_class)
        I == DOMAIN a.entries
        only_b == {k \in DOMAIN b.entries : EntriesOf(a, b.entries[k].bank_class) = {}}
    IN  [common |-> Total([k \in I |-> Smaller(a.entries[k].page_count, count_b(k))]),
         union |-> Total([k \in I |-> Larger(a.entries[k].page_count, count_b(k))])
                   + Total([k \in only_b |-> b.entries[k].page_count])]

-----------------------------------------------------------------------------
(* bank_profile_build                                                      *)

Idle == [pc |-> "idle", pid |-> 0, life |-> 0, lines |-> 0, page |-> 0, pages |-> 0, rc |-> "OK"]

\* Default configuration: anonymous, heap and stack, writable.
region_is_selected(r) == r.perms = "rw" /\ r.kind \in {"anon", "heap", "stack"}

\* Defect: one page more than the limit.
Bug_SampleOneMore == profile.pages_sampled <= max_pages_to_sample

SamplesLeft == max_pages_to_sample = 0 \/ profile.pages_sampled < max_pages_to_sample

\* Defect: the error path forgets the pagemap descriptor.
Bug_CloseForgets(rc) ==
    /\ build' = [build EXCEPT !.pc = "done", !.rc = rc]
    /\ build_files' = IF rc = "OK" THEN {} ELSE build_files \ {"maps"}

\* Return: every path closes both files.
Return(rc) ==
    /\ build' = [build EXCEPT !.pc = "done", !.rc = rc]
    /\ build_files' = {}

\* Open maps.  The open of a file may fail for any reason.
BuildOpen(pid) ==
    /\ build.pc = "idle"
    /\ profile' = bank_profile_reset
    /\ \/ /\ Exists(pid) /\ FilesOpen < MaxFiles
          /\ build' = [Idle EXCEPT !.pc = "opening", !.pid = pid, !.life = kernel[pid].life]
          /\ build_files' = {"maps"}
       \/ /\ build' = [Idle EXCEPT !.pc = "done", !.pid = pid, !.rc = "OPEN_MAPS"]
          /\ UNCHANGED build_files

\* addr_translate_open: open pagemap, of whichever process has the pid now.
BuildOpenPagemap ==
    /\ build.pc = "opening"
    /\ \/ /\ Exists(build.pid) /\ FilesOpen < MaxFiles
          /\ build' = [build EXCEPT !.pc = "maps"]
          /\ build_files' = {"maps", "pagemap"}
       \/ Return("ADDR_OPEN")
    /\ UNCHANGED profile

\* The open files stay with the process they were opened for: once it is
\* gone they give nothing, also when its pid has a new owner.  If the pid
\* changed owner between the two opens, the maps give no line and so no page
\* is looked up.
Readable == Exists(build.pid) /\ kernel[build.pid].life = build.life

\* One line of the maps file.
BuildRegion ==
    /\ build.pc = "maps" /\ Readable /\ build.lines < MaxRegions
    /\ \E r \in Regions :
         build' = IF region_is_selected(r)
                    THEN [build EXCEPT !.lines = @ + 1, !.pc = "pages", !.page = 0, !.pages = r.pages]
                    ELSE [build EXCEPT !.lines = @ + 1]
    /\ UNCHANGED <<profile, build_files>>

\* Is there another page in sample_region's loop?
MorePages == build.page < build.pages /\ SamplesLeft

\* One round of sample_region's loop.
BuildPage ==
    /\ build.pc = "pages" /\ MorePages
    /\ \E e \in IF Readable THEN PageEntries ELSE {Unreadable} :
         LET code == TranslateCode(e)
             sampled == [profile EXCEPT !.pages_sampled = @ + 1]
             added == profile_add_bank_class_count([sampled EXCEPT !.pages_translated = @ + 1],
                                                   class_of[e.pfn], 1)
         IN  \/ /\ code # "OK"
                /\ profile' = count_translation_skip(sampled, code)
                /\ build' = [build EXCEPT !.page = @ + Larger(sample_stride_pages, 1)]
                /\ UNCHANGED build_files
             \/ /\ code = "OK" /\ added.rc = "OK"
                /\ profile' = added.p
                /\ build' = [build EXCEPT !.page = @ + Larger(sample_stride_pages, 1)]
                /\ UNCHANGED build_files
             \/ /\ code = "OK" /\ added.rc # "OK"
                /\ profile' = added.p
                /\ Return(added.rc)

BuildRegionEnd ==
    /\ build.pc = "pages" /\ ~MorePages
    /\ build' = [build EXCEPT !.pc = IF SamplesLeft THEN "maps" ELSE "ending"]
    /\ UNCHANGED <<profile, build_files>>

\* The end of the maps file, or of what was to be sampled.  Reading the maps
\* may also fail.
BuildEnd ==
    /\ build.pc \in {"maps", "ending"}
    /\ \/ Return(IF profile.pages_translated = 0 \/ profile.entries = <<>> THEN "NO_SAMPLES" ELSE "OK")
       \/ build.pc = "maps" /\ Return("IO")
    /\ UNCHANGED profile

\* The caller has looked at the result; its profile is a local variable.
BuildConsumed == build' = Idle /\ profile' = bank_profile_reset /\ UNCHANGED build_files

BuildStep == BuildOpenPagemap \/ BuildRegion \/ BuildPage \/ BuildRegionEnd \/ BuildEnd

-----------------------------------------------------------------------------
(* Properties, for the runs of the detector.                               *)

\* Every sampled page is accounted for: translated or skipped for a reason,
\* and every translated page is in the histogram.
PagesAdd(p) ==
    /\ p.pages_sampled = p.pages_translated + p.skipped["not_present"] + p.skipped["swapped"]
                         + p.skipped["pfn_unavailable"] + p.skipped["translation_error"]
    /\ p.pages_translated = Total([k \in DOMAIN p.entries |-> p.entries[k].page_count])

\* The pages of a profile, numbered within their class, however many entries
\* the class has.
Pages(p) ==
    LET count(c) == Total([k \in EntriesOf(p, c) |-> p.entries[k].page_count])
    IN  UNION {{c} \X (1..count(c)) : c \in {p.entries[k].bank_class : k \in DOMAIN p.entries}}

\* The score's two numbers, from the pages.
Jaccard(a, b) ==
    [common |-> Cardinality(Pages(a) \cap Pages(b)), union |-> Cardinality(Pages(a) \cup Pages(b))]
=============================================================================
