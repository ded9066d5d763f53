----------------------------- MODULE SideBySide -----------------------------
(***************************************************************************)
(* The side-by-side view of two outputs: diff_renderers.py walks the        *)
(* opcodes of a SequenceMatcher, and those of a second one inside every     *)
(* replaced block, keeps the two line numbers by hand, and collapses what   *)
(* is out of context.  Each action appends the rows of one opcode.          *)
(* difflib is outside the repository: a matcher may give any opcodes that   *)
(* are right for the texts, equal and unequal blocks by turns.              *)
(***************************************************************************)
EXTENDS ContextWindow

CONSTANTS
    Lines,        \* the texts a line may have
    MaxLines      \* bound on the lines of each output

VARIABLES
    origin, dest,   \* the two outputs, as lines
    pc,             \* "lines", or "chunk" inside a replaced block, then "shown"
    tag,            \* of the matcher's last opcode
    at,             \* lines of each side that the opcodes so far cover
    chunk,          \* where the replaced block ends
    num,            \* origin_line_num and dest_line_num
    rows

sideVars == <<origin, dest, pc, tag, at, chunk, num, rows>>

Blank == "blank"
Pair(o, d) == [o |-> o, d |-> d]

\* Line number 0 stands for an empty cell.
Row(on, otext, dn, dtext, type) ==
    [origin_num |-> on, origin_content |-> otext,
     dest_num |-> dn, dest_content |-> dtext, type |-> type]

Rows == [origin_num : Nat, origin_content : Lines \cup {Blank},
         dest_num : Nat, dest_content : Lines \cup {Blank},
         type : {"equal", "delete", "add", "replace"}]

ASSUME SideBySideAssumption ==
    {MaxLines, MaxContext} \subseteq Nat /\ Omitted \notin Rows

SideInit ==
    /\ origin \in BoundedSeq(Lines, MaxLines)
    /\ dest \in BoundedSeq(Lines, MaxLines)
    /\ pc = "lines"
    /\ tag = "start"
    /\ at = Pair(0, 0)
    /\ chunk = Pair(0, 0)
    /\ num = Pair(1, 1)
    /\ rows = <<>>
    /\ context = 0
    /\ output = <<>>

Limit == IF pc = "chunk" THEN chunk ELSE Pair(Len(origin), Len(dest))

\* The opcode covers the next n lines of origin and m of dest.
Opcode(t, n, m) ==
    /\ at.o + n <= Limit.o
    /\ at.d + m <= Limit.d
    /\ IF t = "equal" THEN tag # "equal" ELSE tag \in {"start", "equal"}
    /\ tag' = t
    /\ at' = Pair(at.o + n, at.d + m)

Number(n, m) == num' = Pair(num.o + n, num.d + m)

\* Equal lines: the text of origin is shown on both sides.
AppendEqual ==
    \E n \in 1 .. MaxLines :
        /\ Opcode("equal", n, n)
        /\ \A k \in 1 .. n : origin[at.o + k] = dest[at.d + k]
        /\ rows' = rows \o [k \in 1 .. n |->
               Row(num.o + k - 1, origin[at.o + k], num.d + k - 1, origin[at.o + k], "equal")]
        /\ Number(n, n)

AppendDelete ==
    \E n \in 1 .. MaxLines :
        /\ Opcode("delete", n, 0)
        /\ rows' = rows \o [k \in 1 .. n |->
               Row(num.o + k - 1, origin[at.o + k], 0, Blank, "delete")]
        /\ Number(n, 0)

AppendInsert ==
    \E m \in 1 .. MaxLines :
        /\ Opcode("insert", 0, m)
        /\ rows' = rows \o [k \in 1 .. m |->
               Row(0, Blank, num.d + k - 1, dest[at.d + k], "add")]
        /\ Number(0, m)

LineEqual  == pc = "lines" /\ AppendEqual  /\ UNCHANGED <<origin, dest, pc, chunk, page>>
LineDelete == pc = "lines" /\ AppendDelete /\ UNCHANGED <<origin, dest, pc, chunk, page>>
LineInsert == pc = "lines" /\ AppendInsert /\ UNCHANGED <<origin, dest, pc, chunk, page>>

\* A replaced block is given to a matcher of its own.
LineReplace ==
    /\ pc = "lines"
    /\ tag \in {"start", "equal"}
    /\ \E n, m \in 1 .. MaxLines :
          /\ at.o + n <= Len(origin)
          /\ at.d + m <= Len(dest)
          /\ chunk' = Pair(at.o + n, at.d + m)
    /\ pc' = "chunk"
    /\ tag' = "start"
    /\ UNCHANGED <<origin, dest, at, num, rows, page>>

ChunkEqual  == pc = "chunk" /\ AppendEqual  /\ UNCHANGED <<origin, dest, pc, chunk, page>>
ChunkDelete == pc = "chunk" /\ AppendDelete /\ UNCHANGED <<origin, dest, pc, chunk, page>>
ChunkInsert == pc = "chunk" /\ AppendInsert /\ UNCHANGED <<origin, dest, pc, chunk, page>>

\* Mutant of PairedRows: the rows go as far as the shorter block.
PairedRowsShort(n, m) ==
    [k \in 1 .. Min({n, m}) |->
        Row(num.o + k - 1, origin[at.o + k], num.d + k - 1, dest[at.d + k], "replace")]

\* Lines are paired by position; what is left of the longer block has no partner.
PairedRows(n, m) ==
    [k \in 1 .. Max({n, m}) |->
        IF k <= n /\ k <= m
        THEN Row(num.o + k - 1, origin[at.o + k], num.d + k - 1, dest[at.d + k], "replace")
        ELSE IF k <= n THEN Row(num.o + k - 1, origin[at.o + k], 0, Blank, "delete")
        ELSE Row(0, Blank, num.d + k - 1, dest[at.d + k], "add")]

ChunkReplace ==
    /\ pc = "chunk"
    /\ \E n, m \in 1 .. MaxLines :
          /\ Opcode("replace", n, m)
          /\ rows' = rows \o PairedRows(n, m)
          /\ Number(n, m)
    /\ UNCHANGED <<origin, dest, pc, chunk, page>>

ChunkDone ==
    /\ pc = "chunk"
    /\ at = chunk
    /\ pc' = "lines"
    /\ tag' = "replace"
    /\ UNCHANGED <<origin, dest, at, chunk, num, rows, page>>

Changed == {i \in DOMAIN rows : rows[i].type # "equal"}

Covered == pc = "lines" /\ at = Limit

ShowFull ==
    /\ Covered
    /\ output' = rows
    /\ context' = Len(rows)
    /\ pc' = "shown"
    /\ UNCHANGED <<origin, dest, tag, at, chunk, num, rows>>

ShowContext ==
    /\ Covered
    /\ context' \in 0 .. MaxContext
    /\ output' = ApplyContext(rows, Changed, context')
    /\ pc' = "shown"
    /\ UNCHANGED <<origin, dest, tag, at, chunk, num, rows>>

SideNext ==
    \/ LineEqual \/ LineDelete \/ LineInsert \/ LineReplace
    \/ ChunkEqual \/ ChunkDelete \/ ChunkInsert \/ ChunkReplace \/ ChunkDone
    \/ ShowFull \/ ShowContext

SideSpec == SideInit /\ [][SideNext]_<<sideVars, page>>
-----------------------------------------------------------------------------
(* Properties                                                               *)

\* The numbered cells of one side of a table, from top to bottom, are the first
\* n lines of its text.
Carries(table, number, content, text, n) ==
    LET numbered == {i \in DOMAIN table : table[i][number] # 0} IN
    /\ {table[i][number] : i \in numbered} = 1 .. n
    /\ \A i, j \in numbered : i < j => table[i][number] < table[j][number]
    /\ \A i \in numbered : table[i][content] = text[table[i][number]]

\* After every opcode, of either matcher, each side of the table carries the
\* lines of its output covered so far, every one once, in order and under its
\* own number (_build_side_by_side_rows, _append_replace_rows,
\* _append_line_replacement_rows).
SidesAreWhole ==
    /\ Carries(rows, "origin_num", "origin_content", origin, at.o)
    /\ Carries(rows, "dest_num", "dest_content", dest, at.d)

\* In context mode a row is on screen exactly when it is changed or near enough
\* to a changed row; without any change, the whole table is
\* (_build_context_indexes).
ContextIsKept ==
    pc = "shown" =>
        \A i \in DOMAIN rows :
            rows[i] \in Range(output)
                <=> (Changed = {} \/ \E j \in Changed : i - j \in -context .. context)

\* The reader of a collapsed table sees where rows are missing, and only there
\* (_apply_context_to_rows).
CollapseIsVisible == pc = "shown" => GapsAreMarked(rows, output)
=============================================================================
