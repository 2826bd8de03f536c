------------------------------- MODULE FilePatch -------------------------------
(***************************************************************************)
(* Patches of a file: `asp patch` (and an agent's guarded file_put with    *)
(* the base in its cache) compares the file it was given with the local    *)
(* one and sends the difference, as ranges, as one replaced middle or as   *)
(* the whole file; the server rebuilds the file from the base it has and   *)
(* commits it if the base is still the one the client saw.                 *)
(*                                                                         *)
(* Offsets count from 0, as in the source: byte k of s is s[k + 1].        *)
(* The bytes matter here, for the property is about them.                  *)
(***************************************************************************)
EXTENDS Naturals, Sequences, SequencesExt, FiniteSetsExt

CONSTANTS
    Bytes,           \* byte values; 0 is the newline
    MaxFile,         \* bound: bytes of a file
    MaxLines,        \* FILE_PATCH_LINE_MAX_LINES
    Gap,             \* FILE_PATCH_RANGE_COALESCE_GAP_BYTES
    PatchOverhead,   \* FILE_PATCH_FIXED_OVERHEAD_BYTES
    RangesOverhead,  \* FILE_PATCH_RANGES_FIXED_OVERHEAD_BYTES
    RangeOverhead    \* FILE_PATCH_RANGE_OVERHEAD_BYTES

VARIABLES
    remote,   \* the file in the workspace
    wanted,   \* the local file
    patch,    \* the command: step, the base it got, the request, the file built from it
    outside   \* the file was changed by somebody else

patchVars == <<remote, wanted, patch, outside>>

Files == BoundedSeq(Bytes, MaxFile)
Slice(s, a, b) == SubSeq(s, a + 1, b)

------------------------------------------------------------------------------
(* The client compares. *)

CommonPrefix(a, b) == Len(LongestCommonPrefix({a, b}))
CommonSuffix(a, b) == CommonPrefix(Reverse(a), Reverse(b))
Prefix(old, new) == CommonPrefix(old, new)
Suffix(old, new) ==
    LET p == Prefix(old, new)
    IN  CommonSuffix(Slice(old, p, Len(old)), Slice(new, p, Len(new)))

(* split_patch_lines, patch_line_offset: where line number k begins. *)
LineEnds(s) == SetToSortSeq({k \in 1 .. Len(s) : s[k] = 0 \/ k = Len(s)}, <)
LineOffset(ends, k) == IF k = 0 THEN 0 ELSE ends[k]
Line(s, ends, k) == Slice(s, LineOffset(ends, k), LineOffset(ends, k + 1))

(* An edit says which bytes of the old file become which bytes of the new one:
   old start and end, new start and end. *)

(* The walk along a longest common subsequence of lines: it closes an edit when it
   meets equal lines, and one more where it ends, which is where either file does. *)
LineWalk(old, new) ==
    LET oe == LineEnds(old)
        ne == LineEnds(new)
        equal(i, j) == Line(old, oe, i) = Line(new, ne, j)
        lcs[i \in 0 .. Len(oe), j \in 0 .. Len(ne)] ==
            IF i = Len(oe) \/ j = Len(ne) THEN 0
            ELSE IF equal(i, j) THEN 1 + lcs[i + 1, j + 1]
            ELSE Max({lcs[i + 1, j], lcs[i, j + 1]})
        edit(w) ==
            IF w.i = w.a /\ w.j = w.b THEN w.edits
            ELSE Append(w.edits, <<LineOffset(oe, w.a), LineOffset(oe, w.i),
                                   LineOffset(ne, w.b), LineOffset(ne, w.j)>>)
        step(w) ==
            IF w.i = Len(oe) \/ w.j = Len(ne) THEN w
            ELSE IF equal(w.i, w.j)
            THEN [i |-> w.i + 1, a |-> w.i + 1, j |-> w.j + 1, b |-> w.j + 1, edits |-> edit(w)]
            ELSE IF lcs[w.i + 1, w.j] >= lcs[w.i, w.j + 1]
            THEN [w EXCEPT !.i = @ + 1]
            ELSE [w EXCEPT !.j = @ + 1]
        start == [i |-> 0, a |-> 0, j |-> 0, b |-> 0, edits |-> <<>>]
        end == FoldLeft(LAMBDA w, n : step(w), start, [n \in 1 .. Len(oe) + Len(ne) |-> n])
    IN  [edits |-> edit(end), whole |-> end.i = Len(oe) /\ end.j = Len(ne)]

(* The runs of bytes that differ, between files of one length. *)
ByteRuns(old, new) ==
    LET differ == {k \in 1 .. Len(old) : old[k] # new[k]}
        starts == SetToSortSeq({k \in differ : k - 1 \notin differ}, <)
        last(s) == Min({k \in differ : k >= s /\ k + 1 \notin differ})
    IN  [n \in DOMAIN starts |-> <<starts[n] - 1, last(starts[n]), starts[n] - 1, last(starts[n])>>]

(* Mutant: a merged edit ends where its last part does in the old file alone. *)
CoalesceOldOnly(edits) ==
    FoldLeft(LAMBDA out, e :
        IF out # <<>> /\ e[1] - Last(out)[2] <= Gap
        THEN [out EXCEPT ![Len(out)] = <<@[1], e[2], @[3], @[4]>>]
        ELSE Append(out, e), <<>>, edits)

(* Edits that are close to each other become one. *)
Coalesce(edits) ==
    FoldLeft(LAMBDA out, e :
        IF e[1] = e[2] /\ e[3] = e[4] THEN out
        ELSE IF out # <<>> /\ e[1] - Last(out)[2] <= Gap
        THEN [out EXCEPT ![Len(out)] = <<@[1], e[2], @[3], e[4]>>]
        ELSE Append(out, e), <<>>, edits)

ToRanges(new, edits) ==
    [n \in DOMAIN edits |-> [offset |-> edits[n][1], remove |-> edits[n][2] - edits[n][1],
                             replacement |-> Slice(new, edits[n][3], edits[n][4])]]

(* FILE_PATCH_LINE_MAX_LCS_CELLS has the same effect. *)
TooManyLines(old, new) == Len(LineEnds(old)) > MaxLines \/ Len(LineEnds(new)) > MaxLines

(* derive_file_patch_ranges *)
DeriveRanges(old, new) ==
    LET p == Prefix(old, new)
        s == Suffix(old, new)
        edits == IF Len(old) = Len(new) THEN ByteRuns(old, new)
                 ELSE IF TooManyLines(old, new)
                 THEN << <<p, Len(old) - s, p, Len(new) - s>> >>
                 ELSE LineWalk(old, new).edits
    IN  ToRanges(new, Coalesce(edits))

(* should_use_file_patch_ranges, should_use_file_patch *)
ReplacementLen(ranges) == FoldLeft(LAMBDA n, r : n + Len(r.replacement), 0, ranges)
UseRanges(ranges, size) ==
    /\ Len(ranges) > 1
    /\ RangesOverhead + Len(ranges) * RangeOverhead + ReplacementLen(ranges) < size
    /\ ReplacementLen(ranges) < size
UsePatch(replacement, size) == Len(replacement) + PatchOverhead < size

(* The request for an old and a new file; `negotiated`: the server takes ranges. *)
Choose(old, new, negotiated) ==
    LET ranges == DeriveRanges(old, new)
        p == Prefix(old, new)
        s == Suffix(old, new)
        middle == Slice(new, p, Len(new) - s)
    IN  IF negotiated /\ UseRanges(ranges, Len(new)) THEN [kind |-> "ranges", ranges |-> ranges]
        ELSE IF UsePatch(middle, Len(new))
        THEN [kind |-> "patch", prefix |-> p, suffix |-> s, replacement |-> middle]
        ELSE [kind |-> "put", data |-> new]

------------------------------------------------------------------------------
(* The server rebuilds. *)

RangeEnd(r) == r.offset + r.remove

(* The checks of materialize_file_patch_ranges and of the FILE_PATCH handler. *)
WellFormed(old, r) ==
    CASE r.kind = "ranges" ->
            /\ r.ranges # <<>>
            /\ \A n \in DOMAIN r.ranges :
                  /\ n > 1 => r.ranges[n].offset >= RangeEnd(r.ranges[n - 1])
                  /\ RangeEnd(r.ranges[n]) <= Len(old)
      [] r.kind = "patch" -> r.prefix + r.suffix <= Len(old)
      [] r.kind = "put" -> TRUE

(* materialize_file_patch_ranges *)
MaterializeRanges(old, ranges) ==
    LET from(n) == IF n = 1 THEN 0 ELSE RangeEnd(ranges[n - 1])
        built == FoldLeft(LAMBDA out, n : out \o Slice(old, from(n), ranges[n].offset)
                                              \o ranges[n].replacement,
                          <<>>, [n \in DOMAIN ranges |-> n])
    IN  built \o Slice(old, from(Len(ranges) + 1), Len(old))

MaterializePatch(old, r) ==
    Slice(old, 0, r.prefix) \o r.replacement \o Slice(old, Len(old) - r.suffix, Len(old))

Materialize(old, r) ==
    CASE r.kind = "ranges" -> MaterializeRanges(old, r.ranges)
      [] r.kind = "patch" -> MaterializePatch(old, r)
      [] r.kind = "put" -> r.data

------------------------------------------------------------------------------
NoPatch == [step |-> "idle", old |-> <<>>, request |-> [kind |-> "none"], data |-> <<>>]

PatchInit ==
    /\ remote \in Files /\ wanted \in Files
    /\ patch = NoPatch /\ outside = FALSE

GetFile ==
    /\ patch.step = "idle"
    /\ patch' = [patch EXCEPT !.step = "got", !.old = remote]
    /\ UNCHANGED <<remote, wanted, outside>>

SendPatch(negotiated) ==
    /\ patch.step = "got"
    /\ patch' = IF patch.old = wanted THEN [patch EXCEPT !.step = "unchanged"]
                ELSE [patch EXCEPT !.step = "sent",
                                   !.request = Choose(patch.old, wanted, negotiated)]
    /\ UNCHANGED <<remote, wanted, outside>>

(* apply_file_patch_ranges: the base is read and compared before the gate. *)
BaseConflicts == patch.request.kind # "put" /\ remote # patch.old

(* FILE_PATCH, FILE_PATCH_RANGES *)
BuildFile ==
    /\ patch.step = "sent"
    /\ patch' = IF BaseConflicts
                THEN [patch EXCEPT !.step = "conflict"]
                ELSE IF ~WellFormed(remote, patch.request) THEN [patch EXCEPT !.step = "invalid"]
                ELSE [patch EXCEPT !.step = "built", !.data = Materialize(remote, patch.request)]
    /\ UNCHANGED <<remote, wanted, outside>>

(* store_file_global with the digest of the base, behind the gate. *)
CommitPatch ==
    /\ patch.step = "built"
    /\ IF remote = patch.old
       THEN remote' = patch.data /\ patch' = [patch EXCEPT !.step = "stored"]
       ELSE patch' = [patch EXCEPT !.step = "conflict"] /\ UNCHANGED remote
    /\ UNCHANGED <<wanted, outside>>

(* Another agent's commit. *)
ChangeOutside ==
    /\ ~outside /\ outside' = TRUE
    /\ remote' = Reverse(remote)
    /\ UNCHANGED <<wanted, patch>>

PatchNext ==
    \/ GetFile \/ BuildFile \/ CommitPatch \/ ChangeOutside
    \/ \E negotiated \in BOOLEAN : SendPatch(negotiated)

PatchSpec == PatchInit /\ [][PatchNext]_patchVars

------------------------------------------------------------------------------
(* The line walk left bytes of one of the files behind it. *)
CutShort ==
    /\ patch.request.kind = "ranges" /\ Len(patch.old) # Len(wanted)
    /\ ~LineWalk(patch.old, wanted).whole

(* A patch is never refused as malformed, and gives the local file, whether it was
   sent as ranges, as a middle or whole, except where the line walk stopped short
   (derive_line_patch_ranges, materialize_file_patch_ranges). *)
PatchExact ==
    /\ patch.step # "invalid"
    /\ patch.step \in {"built", "stored"} /\ ~CutShort => patch.data = wanted

(* "length_changing_line_edits_use_multiple_ranges_and_reconstruct": what is stored
   for a patch is the local file. *)
PatchReconstructs == patch.step = "stored" => patch.data = wanted
===============================================================================
