---------------------------- MODULE ContextWindow ----------------------------
(***************************************************************************)
(* diff_mode=context: the rows, or lines, of a diff that stay on screen,    *)
(* and the omission marks between them.  Both views use it.                 *)
(***************************************************************************)
EXTENDS Integers, SequencesExt, FiniteSetsExt

CONSTANTS
    Omitted,      \* the row, or line, that shows "..."
    MaxContext    \* bound on context_lines

VARIABLES
    context,   \* context_lines of the request
    output     \* the rows, or lines, on screen

page == <<context, output>>

\* Mutant of ContextIndexes: the last line of the context is left out.
ContextIndexesShort(total, diffIndexes, contextLines) ==
    UNION {Max({1, i - contextLines}) .. Min({total, i + Max({0, contextLines - 1})}) : i \in diffIndexes}

\* The rows at most contextLines away from a changed one.
ContextIndexes(total, diffIndexes, contextLines) ==
    UNION {Max({1, i - contextLines}) .. Min({total, i + contextLines}) : i \in diffIndexes}

\* The rows that are kept, in order, with a mark before each one that does not
\* follow the one before it.
KeptRows(rows, keep) ==
    LET shown(i) ==
            IF i \notin keep THEN <<>>
            ELSE IF i > 1 /\ i - 1 \notin keep THEN <<Omitted, rows[i]>>
            ELSE <<rows[i]>>
    IN FlattenSeq([i \in DOMAIN rows |-> shown(i)])

\* Mutant of ApplyContext: no mark after the last row that is kept.
ApplyContextNoTail(rows, diffIndexes, contextLines) ==
    IF diffIndexes = {} THEN rows
    ELSE KeptRows(rows, ContextIndexes(Len(rows), diffIndexes, contextLines))

\* Another mark follows the last row that is kept if it is not the last row.
ApplyContext(rows, diffIndexes, contextLines) ==
    LET keep == ContextIndexes(Len(rows), diffIndexes, contextLines)
        tail == IF Len(rows) \in keep THEN <<>> ELSE <<Omitted>>
    IN IF diffIndexes = {} THEN rows ELSE KeptRows(rows, keep) \o tail
-----------------------------------------------------------------------------
(* What a reader of the output may rely on, for rows that are all different. *)

\* Where each entry of the output comes from: 0 is the top of the page, -1 a mark.
Places(rows, shown) ==
    [p \in 0 .. Len(shown) + 1 |->
        IF p = 0 THEN 0
        ELSE IF p = Len(shown) + 1 THEN Len(rows) + 1
        ELSE IF shown[p] = Omitted THEN -1
        ELSE CHOOSE i \in DOMAIN rows : rows[i] = shown[p]]

\* A mark stands exactly where at least one row is missing, and never beside
\* another mark; rows that are neighbours in the output are neighbours in rows.
GapsAreMarked(rows, shown) ==
    LET place == Places(rows, shown) IN
    \A p \in 0 .. Len(shown) :
        IF place[p + 1] = -1
        THEN place[p] # -1 /\ place[p + 2] > place[p] + 1
        ELSE place[p] # -1 => place[p + 1] = place[p] + 1
=============================================================================
