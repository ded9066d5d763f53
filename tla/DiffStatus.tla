------------------------------ MODULE DiffStatus ------------------------------
(***************************************************************************)
(* What the endpoints say about the two stored outputs of a command:        *)
(* read results, the status of a pair, and the category it is counted in.   *)
(* Of a text matters whether it is empty, whether it equals the other one,  *)
(* and the status that it names if it begins with [UNAVAILABLE: status].     *)
(***************************************************************************)
EXTENDS Integers, Sequences

\* A marker is the status that it names ("unavailable" if it is left empty), and
\* "none" where there is no marker.
Text(marker, body) == [marker |-> marker, body |-> body]
Plain(body)        == Text("none", body)
MarkedAs(status)   == Text(status, "marked")
Empty              == Plain("empty")

\* read_output_by_key: a status and, unless the file is missing or unreadable,
\* its text.  The status of a marked text is whatever its marker says.
NotFound == [status |-> "not_found", text |-> Empty]
Unread   == [status |-> "error", text |-> Empty]
ReadOf(text) ==
    [status |-> IF text.marker = "none" THEN "available" ELSE text.marker, text |-> text]

Both(o, d, status) == o.status = status /\ d.status = status

\* diff_main and diff_cleanupSemantic: the operations of the segments.  Equal
\* texts are one equal segment, two empty ones none at all; texts that differ may
\* share a prefix.
Segments(o, d) ==
    CASE o = d /\ o = Empty -> <<>>
      [] o = d /\ o # Empty -> <<0>>
      [] o # d /\ o = Empty -> <<1>>
      [] o # d /\ d = Empty -> <<-1>>
      [] OTHER              -> <<0, -1, 1>>

\* Mutant of ComputeDiffStatus: a shared prefix is taken for equality.
ComputeDiffStatusPrefix(o, d) ==
    LET diffs == Segments(o, d) IN
    IF Len(diffs) >= 1 /\ diffs[1] = 0 THEN "identical" ELSE "changes detected"

\* The status alone: exactly one segment, and it is equal.
ComputeDiffStatus(o, d) ==
    LET diffs == Segments(o, d) IN
    IF Len(diffs) = 1 /\ diffs[1] = 0 THEN "identical" ELSE "changes detected"

\* The status that comes with the rendering: no segment that is not equal.
ComputeDiff(o, d) ==
    LET diffs == Segments(o, d) IN
    IF \A i \in DOMAIN diffs : diffs[i] = 0 THEN "identical" ELSE "changes detected"

ResultCategory(status) ==
    CASE status = "changes detected" -> "changed"
      [] status = "identical"        -> "identical"
      [] status = "file not found"   -> "not_found"
      [] OTHER                       -> "unavailable"

\* The order of the tests when not both sides are available.  Of the status that is
\* shown only the side matters: it is counted as unavailable whatever it says.
PartialStatus(o, d) ==
    IF o.status # "not_found" THEN "origin {status}"
    ELSE IF d.status # "not_found" THEN "dest {status}"
    ELSE "file not found"

\* GET /hosts/{host}/detail
DetailStatus(o, d) ==
    IF Both(o, d, "available") THEN ComputeDiff(o.text, d.text) ELSE PartialStatus(o, d)

\* GET /hosts/summary
SummaryStatus(o, d) ==
    IF Both(o, d, "available") THEN ComputeDiffStatus(o.text, d.text) ELSE PartialStatus(o, d)

\* GET /exports/{host}/diff-json
ExportStatus(o, d) ==
    IF Both(o, d, "available") THEN ComputeDiffStatus(o.text, d.text) ELSE PartialStatus(o, d)

\* GET /diff/{host}
DiffHostStatus(o, d, view) ==
    IF ~Both(o, d, "available") THEN "unavailable"
    ELSE IF view = "sidebyside" THEN ComputeDiffStatus(o.text, d.text)
    ELSE ComputeDiff(o.text, d.text)

\* POST /compare/files, of two files that exist: the texts are read as they are.
CompareStatus(text1, text2, view) ==
    IF view = "sidebyside" THEN ComputeDiffStatus(text1, text2)
    ELSE ComputeDiff(text1, text2)

Views == {"inline", "sidebyside"}

\* What each endpoint counts the pair as.
Categories(o, d) ==
    {ResultCategory(s) : s \in
        {DetailStatus(o, d), SummaryStatus(o, d), ExportStatus(o, d)}
            \cup {DiffHostStatus(o, d, view) : view \in Views}
            \cup (IF Both(o, d, "available")
                  THEN {CompareStatus(o.text, d.text, view) : view \in Views} ELSE {})}
=============================================================================
