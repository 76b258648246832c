----------------------------- MODULE LookupTools -----------------------------
(***************************************************************************)
(* The tools that look things up, on the web and in the user's files.       *)
(*                                                                         *)
(* Web: two searches and the fetch of a page.  A call makes one request;    *)
(* what comes back is classified for the caller, and a page is reduced to   *)
(* its text.  A page is a sequence of marks: letters, blanks, the brackets  *)
(* of tags, and the opening and closing of script and style blocks.         *)
(*                                                                         *)
(* Files: glob, grep and read.  A path is a sequence of names; a pattern is *)
(* one of names, "*" and "**".  A call looks at the tree as it is, and the  *)
(* next at a tree that may have changed.                                    *)
(***************************************************************************)
EXTENDS Naturals, Sequences, FiniteSets, SequencesExt

CONSTANTS
  Calls,       \* calls of the web tools
  MaxPage,     \* bound: marks of a page
  MaxBody,     \* marks of a page that are read
  MaxText,     \* marks of its text that are shown
  Letters,     \* letters, as strings
  Names,       \* names of files and directories
  MaxDepth,    \* bound: names in a path
  MaxPaths,    \* bound: paths of a tree
  MaxPattern,  \* bound: parts of a pattern
  MaxResults,  \* paths that glob returns
  MaxLines,    \* bound: lines of a file
  MaxLimit,    \* lines that read returns
  None         \* no result

VARIABLES
  kind,    \* web calls: "web_search", "tavily_search" or "web_fetch"
  reply,   \* web calls: None, or what came back: [status, code, page]
  report,  \* web calls: None or how the call was reported: [class, text]
  stats,   \* of the fetches: [total, errors, network]
  tree,    \* the paths of the tree, oldest first
  lines,   \* lines of the file that is read
  next,    \* where the next page of it begins
  pages,   \* lines read so far, in order
  call,    \* None or the call on the files: [tool, pattern]
  outcome  \* None or what it returned

webVars == <<kind, reply, report, stats>>
fileVars == <<tree, lines, next, pages, call, outcome>>

Blocks == {"script", "style"}
Open(tag) == IF tag = "script" THEN "<script" ELSE "<style"
Close(tag) == IF tag = "script" THEN "</script>" ELSE "</style>"
Marks == Letters \cup {"<", ">", " "} \cup {Open(t) : t \in Blocks} \cup {Close(t) : t \in Blocks}

Statuses == {"none", "200", "401", "403", "429", "503", "529", "other"}
Codes == {"", "0", "11200", "11201", "other", "invalid"}

\* What a server may answer, or fail to; only pages of a fetch matter, and only codes of
\* a search.
Replies(k) ==
  [status : Statuses \ {"200"}, code : {""}, page : {<<>>}]
    \cup IF k = "web_fetch" THEN [status : {"200"}, code : {"", "invalid"}, page : BoundedSeq(Marks, MaxPage)]
         ELSE [status : {"200"}, code : Codes, page : {<<>>}]

-----------------------------------------------------------------------------
(* Pages                                                                   *)

First(S) == CHOOSE i \in S : \A j \in S : i <= j
Without(s, a, b) == SubSeq(s, 1, a - 1) \o SubSeq(s, b + 1, Len(s))
At(s, mark) == {i \in DOMAIN s : s[i] = mark}

\* The first block of a tag is cut out up to the next end, whatever is inside.
CutBlock(s, tag) ==
  LET a == First(At(s, Open(tag)))
      ends == {i \in At(s, Close(tag)) : i > a}
  IN IF At(s, Open(tag)) = {} \/ ends = {} THEN s ELSE Without(s, a, First(ends))

CutBlocks(s, tag) ==
  LET f[n \in 0..Len(s)] == IF n = 0 THEN s ELSE CutBlock(f[n - 1], tag) IN f[Len(s)]

BeginsTag(m) == m = "<" \/ m \in {Open(t) : t \in Blocks}
EndsTag(m) == m = ">"
Both(m) == m \in {Close(t) : t \in Blocks}

\* What is between brackets goes, each closing bracket becomes a blank.
DropTags(s) ==
  LET f[n \in 0..Len(s)] ==
        IF n = 0 THEN [in |-> FALSE, out |-> <<>>]
        ELSE LET p == f[n - 1]  m == s[n] IN
          CASE BeginsTag(m) -> [p EXCEPT !.in = TRUE]
            [] EndsTag(m) \/ Both(m) -> [in |-> FALSE, out |-> Append(p.out, " ")]
            [] OTHER -> IF p.in THEN p ELSE [p EXCEPT !.out = Append(@, m)]
  IN f[Len(s)].out

\* Neighbouring blanks become one, and none is left at the ends.
Collapse(s) ==
  LET keep(i) == s[i] # " " \/ (/\ i > 1 /\ s[i - 1] # " "
                                /\ \E j \in (i + 1)..Len(s) : s[j] # " ")
      kept == {i \in DOMAIN s : keep(i)}
      f[n \in 0..Len(s)] == IF n = 0 THEN <<>> ELSE IF n \in kept THEN Append(f[n - 1], s[n]) ELSE f[n - 1]
  IN f[Len(s)]

stripBasicHTML(s) == Collapse(DropTags(CutBlocks(CutBlocks(s, "script"), "style")))

\* A body is read, and its text shown, up to a limit.
UpTo(s, limit) == IF Len(s) > limit THEN SubSeq(s, 1, limit) ELSE s
Read(s) == UpTo(s, MaxBody)

-----------------------------------------------------------------------------
(* Calls                                                                   *)

WebInit ==
  /\ kind \in [Calls -> {"web_search", "tavily_search", "web_fetch"}]
  /\ reply = [c \in Calls |-> None] /\ report = [c \in Calls |-> None]
  /\ stats = [total |-> 0, errors |-> 0, network |-> 0]

\* The request goes out; a fetch is counted first.
Request(c) ==
  /\ reply[c] = None
  /\ \E r \in Replies(kind[c]) : reply' = [reply EXCEPT ![c] = r]
  /\ stats' = IF kind[c] = "web_fetch" THEN [stats EXCEPT !.total = @ + 1] ELSE stats
  /\ UNCHANGED <<kind, report>>

HTTPClass(status) ==
  CASE status = "429" -> "rate_limit"
    [] status \in {"503", "529"} -> "overloaded"
    [] status \in {"401", "403"} -> "permission_denied"
    [] OTHER -> "model_error"

\* The first search also reads a code in the body; none at all is as good as "0".
CodeClass(code) ==
  CASE code \in {"", "0"} -> "ok"
    [] code = "11200" -> "permission_denied"
    [] code = "11201" -> "rate_limit"
    [] OTHER -> "model_error"

SearchEnds(c) ==
  /\ kind[c] \in {"web_search", "tavily_search"} /\ reply[c] # None /\ report[c] = None
  /\ LET r == reply[c]
         class == CASE r.status # "200" -> HTTPClass(r.status)
                    [] r.status = "200" /\ kind[c] = "web_search" -> CodeClass(r.code)
                    [] OTHER -> IF r.code = "invalid" THEN "model_error" ELSE "ok"
     IN report' = [report EXCEPT ![c] = [class |-> class, text |-> <<>>]]
  /\ UNCHANGED <<kind, reply, stats>>

\* A body that breaks off while it is read is an error that the statistics leave out.
FetchEnds(c) ==
  /\ kind[c] = "web_fetch" /\ reply[c] # None /\ report[c] = None
  /\ LET r == reply[c]  ok == r.status = "200" /\ r.code # "invalid" IN
       /\ report' = [report EXCEPT ![c] = [class |-> IF ok THEN "ok" ELSE "error",
                                             text |-> IF ok THEN UpTo(stripBasicHTML(Read(r.page)), MaxText) ELSE <<>>]]
       /\ stats' = IF r.status = "200" THEN stats
                   ELSE [stats EXCEPT !.errors = @ + 1,
                                      !.network = IF r.status = "none" THEN @ + 1 ELSE @]
  /\ UNCHANGED <<kind, reply>>

WebNext == \E c \in Calls : Request(c) \/ SearchEnds(c) \/ FetchEnds(c)

-----------------------------------------------------------------------------
(* Paths                                                                   *)

\* The tree itself is a path of its own.
Root == <<".">>
Paths == {Root} \cup UNION {[1..n -> Names] : n \in 1..MaxDepth}
Patterns == UNION {[1..n -> Names \cup {"*", "**"}] : n \in 1..MaxPattern}

Parent(n) == IF Len(n) = 1 THEN Root ELSE SubSeq(n, 1, Len(n) - 1)

\* Trees of a few paths by the time of their last change, each with its directory.
Listings == {s \in UNION {[1..n -> Paths] : n \in 1..MaxPaths} :
               /\ \A i, j \in DOMAIN s : i # j => s[i] # s[j]
               /\ \A i \in DOMAIN s : \E j \in DOMAIN s : s[j] = Parent(s[i])}

-----------------------------------------------------------------------------
(* glob                                                                    *)

\* The library's match of a whole path, name by name; "**" is two stars of one name.
MatchPath(p, n) == Len(p) = Len(n) /\ \A i \in DOMAIN p : p[i] \in {"*", "**", n[i]}

From(s, i) == SubSeq(s, i, Len(s))

doubleStarMatch(p, n) ==
  IF p[1] = "**" /\ Len(p) > 1
  THEN \E i \in 1..Len(n) : MatchPath(From(p, 2), From(n, i))
  ELSE MatchPath(p, n)

HasDoubleStar(p) == \E i \in DOMAIN p : p[i] = "**"

\* A walk of the tree, or the library's own glob; the latest first, and so many.
Glob(p) ==
  LET hit(n) == IF HasDoubleStar(p) THEN doubleStarMatch(p, n) ELSE MatchPath(p, n)
      found == {i \in DOMAIN tree : hit(tree[i])}
  IN {tree[i] : i \in {i \in found : Cardinality({j \in found : j > i}) < MaxResults}}

-----------------------------------------------------------------------------
FilesInit ==
  /\ tree \in Listings /\ lines \in 0..MaxLines
  /\ next = 1 /\ pages = <<>> /\ call = None /\ outcome = None

CallGlob ==
  /\ \E p \in Patterns : call' = [tool |-> "glob", pattern |-> p] /\ outcome' = Glob(p)
  /\ UNCHANGED <<tree, lines, next, pages>>

\* rg's exit codes: 1 finds nothing, 2 is a bad pattern; killed or missing, its output
\* is what there is, unless the call was cancelled.
GrepClass(exit, ctx) ==
  CASE exit = "1" -> "nothing"
    [] exit = "2" -> "invalid_input"
    [] exit \in {"killed", "missing"} /\ ctx # None -> ctx
    [] OTHER -> "output"

CallGrep ==
  /\ \E exit \in {"0", "1", "2", "killed", "missing"}, ctx \in {None, "tool_timeout", "user_aborted"} :
       /\ exit = "killed" => ctx # None
       /\ call' = [tool |-> "grep", pattern |-> <<exit>>] /\ outcome' = GrepClass(exit, ctx)
  /\ UNCHANGED <<tree, lines, next, pages>>

FirstLine(from) == from

\* A page of the file from a line on, none when there is no such line.
Page(from) ==
  LET rest == IF from > lines THEN 0 ELSE lines - from + 1
      size == IF rest < MaxLimit THEN rest ELSE MaxLimit
  IN [i \in 1..size |-> FirstLine(from) + i - 1]

\* The file is read from the line after the last one seen.
CallRead ==
  /\ next <= MaxLines + 1
  /\ call' = [tool |-> "read", pattern |-> <<next>>]
  /\ outcome' = IF Page(next) = <<>> THEN "empty file" ELSE Page(next)
  /\ pages' = pages \o Page(next) /\ next' = next + MaxLimit
  /\ UNCHANGED <<tree, lines>>

FilesNext ==
  \/ call = None /\ (CallGlob \/ CallGrep \/ CallRead)
  \/ call # None /\ call.tool = "read" /\ CallRead

-----------------------------------------------------------------------------
Init == WebInit /\ FilesInit

Next ==
  \/ WebNext /\ UNCHANGED fileVars
  \/ FilesNext /\ UNCHANGED webVars

Spec == Init /\ [][Next]_<<webVars, fileVars>>

-----------------------------------------------------------------------------
(* Properties                                                              *)

\* By position: a mark belongs to a block of a tag that is closed.
InBlock(s, i, tag) ==
  \E j \in 1..i, k \in i..Len(s) :
    /\ j < k /\ s[j] = Open(tag) /\ s[k] = Close(tag)
    /\ \A m \in (j + 1)..(k - 1) : s[m] # Close(tag)

\* By position: the last bracket before a mark opened a tag.
InTag(s, i) ==
  \E j \in 1..(i - 1) : BeginsTag(s[j]) /\ \A m \in (j + 1)..(i - 1) : ~EndsTag(s[m]) /\ ~Both(s[m])

Rest(s, P(_)) ==
  LET f[n \in 0..Len(s)] == IF n = 0 THEN <<>> ELSE IF P(n) THEN Append(f[n - 1], s[n]) ELSE f[n - 1]
  IN f[Len(s)]

\* The letters of a page outside closed scripts, then outside closed styles, then
\* outside tags.
TextOf(page) ==
  LET a == Rest(page, LAMBDA i : ~InBlock(page, i, "script"))
      b == Rest(a, LAMBDA i : ~InBlock(a, i, "style"))
  IN Rest(b, LAMBDA i : b[i] \in Letters /\ ~InTag(b, i))

\* A fetched page is shown as its text, in order and with nothing of a tag, a script or
\* a style that is closed, as far as there is room; and a search that is not an error had an answer.
PageIsText ==
  \A c \in Calls : report[c] # None /\ report[c].class = "ok" =>
    /\ reply[c].status = "200"
    /\ kind[c] = "web_fetch" =>
         LET shown == report[c].text
             text == TextOf(Read(reply[c].page))
             letters == Rest(shown, LAMBDA i : shown[i] # " ")
         IN /\ IF Len(shown) < MaxText THEN letters = text ELSE IsPrefix(letters, text)
            /\ \A i \in DOMAIN shown : shown[i] = " " => i > 1 /\ shown[i - 1] # " "

\* "v2 success criterion: err_code == "0"": refuted, a missing code passes too.
CodeDecides ==
  \A c \in Calls : kind[c] = "web_search" /\ report[c] # None /\ report[c].class = "ok" => reply[c].code = "0"
\* What patterns mean: "**" stands for any names, none included.
Means(p, n) ==
  LET m[i \in 0..Len(p), j \in 0..Len(n)] ==
        IF i = 0 THEN j = 0
        ELSE IF p[i] = "**" THEN m[i - 1, j] \/ (j > 0 /\ m[i, j - 1])
        ELSE j > 0 /\ p[i] \in {"*", n[j]} /\ m[i - 1, j - 1]
  IN m[Len(p), Len(n)]

Meant(p) ==
  LET found == {i \in DOMAIN tree : Means(p, tree[i])}
  IN {tree[i] : i \in {i \in found : Cardinality({j \in found : j > i}) < MaxResults}}

\* glob finds what a pattern means as far as it goes: with "**" at the front or nowhere.
\* And the pages of a file are its lines, each once and in order.
FindsWhatIsMeant ==
  /\ call # None /\ call.tool = "glob" =>
       LET p == call.pattern IN
         (\A i \in 2..Len(p) : p[i] # "**") /\ p # <<"**">> => outcome = Meant(p)
  /\ pages = [i \in 1..(IF next - 1 < lines THEN next - 1 ELSE lines) |-> i]

\* "src/**/*.ts", as the description of glob has it: refuted.
FindsAllThatIsMeant == call # None /\ call.tool = "glob" => outcome = Meant(call.pattern)

\* A search that did not run is not reported as one that found nothing: refuted.
GrepNotRunIsTold ==
  call # None /\ call.tool = "grep" /\ call.pattern = <<"missing">> => outcome # "output"
=============================================================================
