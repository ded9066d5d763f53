------------------------------ MODULE InlineDiff ------------------------------
(***************************************************************************)
(* The inline view: diff_service.py lets diff_match_patch render the        *)
(* segments of the diff as one HTML text, cuts it at the line breaks,       *)
(* highlights the lines that hold a tag and, in context mode, collapses     *)
(* the rest.  A segment is one operation and the characters it covers; a    *)
(* character is a line break or anything else.  The library is outside the  *)
(* repository: any segments a cleaned-up diff may have are considered.      *)
(***************************************************************************)
EXTENDS ContextWindow

CONSTANTS
    MaxSegments,   \* bound on the segments of a diff
    MaxChars       \* bound on the characters of a segment

Operations == {-1, 0, 1}
Characters == {"char", "break"}
HtmlRows == [line : Nat, holds : SUBSET {"char", "changed", "open", "close"}]

ASSUME InlineDiffAssumption ==
    {MaxSegments, MaxChars, MaxContext} \subseteq Nat /\ Omitted \notin HtmlRows

VARIABLES
    stage,      \* "diff", then "full" or "context"
    segments

inlineVars == <<stage, segments>>

InlineInit ==
    /\ stage = "diff"
    /\ segments = <<>>
    /\ context = 0
    /\ output = <<>>

\* Neighbouring segments differ in kind, and a deletion precedes an insertion.
MayFollow(op) ==
    segments # <<>> =>
        LET last == Last(segments).op IN op # last /\ ~(op = -1 /\ last = 1)

Diff ==
    /\ stage = "diff"
    /\ Len(segments) < MaxSegments
    /\ \E op \in Operations, text \in BoundedSeq(Characters, MaxChars) :
          /\ text # <<>>
          /\ MayFollow(op)
          /\ segments' = Append(segments, [op |-> op, text |-> text])
    /\ UNCHANGED <<stage, page>>

\* diff_prettyHtml: a tag opens before, and closes after, a segment that is not
\* equal, however many lines it spans.
Html(segment) ==
    IF segment.op = 0 THEN segment.text
    ELSE <<"open">> \o ReplaceAll(segment.text, "char", "changed") \o <<"close">>

\* split("<br>"): the pieces of each line, without their order.
HtmlLines ==
    LET html == FlattenSeq([s \in DOMAIN segments |-> Html(segments[s])])
        line(p) == Cardinality({q \in 1 .. p - 1 : html[q] = "break"}) + 1
    IN [k \in 1 .. line(Len(html) + 1) |->
           [line |-> k,
            holds |-> {html[p] : p \in {q \in DOMAIN html : line(q) = k}} \ {"break"}]]

\* Mutant of Tagged: the line on which the tag closes is taken.
TaggedByClose(row) == "close" \in row.holds

\* "<del" or "<ins" is in the line: a tag opens there.
Tagged(row) == "open" \in row.holds

TaggedLines(rows) == {i \in DOMAIN rows : Tagged(rows[i])}

\* The status says there are changes; otherwise the text is shown as it is.
SomeChange == \E s \in DOMAIN segments : segments[s].op # 0

ShowInlineFull ==
    /\ stage = "diff"
    /\ SomeChange
    /\ output' = HtmlLines
    /\ stage' = "full"
    /\ UNCHANGED <<segments, context>>

ShowInlineContext ==
    /\ stage = "diff"
    /\ SomeChange
    /\ context' \in 0 .. MaxContext
    /\ output' = ApplyContext(HtmlLines, TaggedLines(HtmlLines), context')
    /\ stage' = "context"
    /\ UNCHANGED segments

InlineNext == Diff \/ ShowInlineFull \/ ShowInlineContext

InlineSpec == InlineInit /\ [][InlineNext]_<<inlineVars, page>>
-----------------------------------------------------------------------------
(* Properties                                                               *)

\* The line breaks in the segments before segment s, and the line it begins on.
BreaksBefore(s) ==
    {b \in (1 .. s - 1) \X (1 .. MaxChars) :
        b[2] \in DOMAIN segments[b[1]].text /\ segments[b[1]].text[b[2]] = "break"}
FirstLine(s) == 1 + Cardinality(BreaksBefore(s))

\* The line on which a change begins, and its context, are on screen; what is
\* collapsed leaves a mark (_render_inline_diff_html, apply_context_to_lines).
ChangesBeginOnScreen ==
    stage = "context" =>
        /\ GapsAreMarked(HtmlLines, output)
        /\ \A s \in DOMAIN segments : segments[s].op # 0 =>
               \A i \in DOMAIN HtmlLines :
                   i - FirstLine(s) \in -context .. context => HtmlLines[i] \in Range(output)
=============================================================================
