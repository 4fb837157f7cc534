---------------------------- MODULE ConfigFile -----------------------------
(***************************************************************************)
(* ConfigFile (src/unnamed/part_000): ParseConfig reads a configuration    *)
(* file line by line with fgets, keeps "directive=value" lines in          *)
(* config_map (one vector of values per lower-cased directive, in reading  *)
(* order) and parses an "include=file" line by calling itself on that     *)
(* file before it reads on.  FetchOpt and FetchOptVec read config_map.     *)
(*                                                                         *)
(* The recursion is a stack of open files: a frame is [file, pos], pos     *)
(* the number of the line its next fgets returns.  A file is a sequence of *)
(* lines and whether its last line ends in a newline.  A line is what      *)
(* StrStrip and the '=' test of lines 45-62 make of it: "blank",           *)
(* "comment", "bare" (no '='), "novalue" ('=' with an empty value),        *)
(* "include" (the directive is exactly "include") or "opt" (key is the     *)
(* lower-cased directive).  Keys, values and file names are model values. *)
(***************************************************************************)
EXTENDS Integers, Sequences, TLC

CONSTANTS
    Files,       \* the file system: name -> [lines |-> Seq(Line), nl |-> BOOLEAN]
    MaxOpen      \* the nesting at which fopen fails (EMFILE) or the stack,
                 \* with an 8 KiB confline per frame, overflows

VARIABLES
    stack,       \* the ParseConfig calls in progress, innermost last
    config_map,  \* key -> the values of its lines, in reading order
    result       \* "running", or what the outermost call ended in

cfVars == <<stack, config_map, result>>

Frame(f) == [file |-> f, pos |-> 1]
Top == stack[Len(stack)]
LinesOf(f) == Files[f].lines
CurLine == LinesOf(Top.file)[Top.pos]

\* Mutant: the loop does not break on feof after fgets, so it also parses
\* a last line that has no newline.
AtEofNoBreak(fr) == fr.pos > Len(LinesOf(fr.file))

(***************************************************************************)
(* Lines 40-43: fgets then feof.  The loop ends when fgets reaches the end *)
(* of the file, which happens on the read after the last newline and also *)
(* on the read of a last line without one: that line is never parsed.      *)
(***************************************************************************)
AtEof(fr) ==
    \/ fr.pos > Len(LinesOf(fr.file))
    \/ fr.pos = Len(LinesOf(fr.file)) /\ ~Files[fr.file].nl

\* config_map[StrLower(directive)].push_back(value)
PushBack(m, k, v) ==
    IF k \in DOMAIN m THEN [m EXCEPT ![k] = Append(@, v)] ELSE (k :> <<v>>) @@ m

\* Lines 34-38: ParseConfig(name) of a new object, the outermost fopen.
Init(name) ==
    /\ config_map = <<>>
    /\ IF name \in DOMAIN Files
       THEN stack = <<Frame(name)>> /\ result = "running"
       ELSE stack = <<>> /\ result = "fail"

(***************************************************************************)
(* One pass of the loop over a line that is not an include: blank,         *)
(* comment, bare and empty-valued lines are skipped, an option is pushed.  *)
(***************************************************************************)
ReadLine ==
    /\ result = "running"
    /\ ~AtEof(Top)
    /\ CurLine.kind # "include"
    /\ config_map' = IF CurLine.kind = "opt"
                     THEN PushBack(config_map, CurLine.key, CurLine.value)
                     ELSE config_map
    /\ stack' = [stack EXCEPT ![Len(stack)].pos = @ + 1]
    /\ UNCHANGED result

(***************************************************************************)
(* Lines 66-70: an include line calls ParseConfig on the named file, which *)
(* opens it while the including file stays open.                           *)
(***************************************************************************)
IncludeFile ==
    /\ result = "running"
    /\ ~AtEof(Top)
    /\ CurLine.kind = "include"
    /\ CurLine.value \in DOMAIN Files
    /\ Len(stack) < MaxOpen
    /\ stack' = Append([stack EXCEPT ![Len(stack)].pos = @ + 1],
                       Frame(CurLine.value))
    /\ UNCHANGED <<config_map, result>>

(***************************************************************************)
(* Lines 34-38 and 69-70 of a nested call: fopen fails (no such file, or   *)
(* no descriptor left once MaxOpen files are open) and every call up to    *)
(* the outermost returns -1 without closing its file.  At MaxOpen the      *)
(* recursion may instead overflow the stack.                               *)
(***************************************************************************)
IncludeFails ==
    /\ result = "running"
    /\ ~AtEof(Top)
    /\ CurLine.kind = "include"
    /\ \/ CurLine.value \notin DOMAIN Files /\ result' = "fail"
       \/ Len(stack) >= MaxOpen /\ result' \in {"fail", "crash"}
    /\ UNCHANGED <<stack, config_map>>

\* Lines 78-80: fclose, return 1; the caller reads on.
FileEnd ==
    /\ result = "running"
    /\ AtEof(Top)
    /\ stack' = SubSeq(stack, 1, Len(stack) - 1)
    /\ result' = IF Len(stack) = 1 THEN "ok" ELSE "running"
    /\ UNCHANGED config_map

Next == ReadLine \/ IncludeFile \/ IncludeFails \/ FileEnd

\* FetchOpt (lines 85-98): the first value of the key, or "".
FetchOpt(k) == IF k \in DOMAIN config_map THEN config_map[k][1] ELSE ""

\* FetchOptVec (lines 100-110): every value of the key, or an empty vector.
FetchOptVec(k) == IF k \in DOMAIN config_map THEN config_map[k] ELSE <<>>

-----------------------------------------------------------------------------
(***************************************************************************)
(* The reading a configuration file is meant to have: its complete lines   *)
(* in order, an include standing for the included file's own reading.      *)
(* ok is FALSE when a file cannot be opened, deep when the nesting passes  *)
(* MaxOpen; opts is the sequence of <<key, value>> pairs read.             *)
(***************************************************************************)
RECURSIVE Reading(_, _)
Reading(f, d) ==
    IF f \notin DOMAIN Files \/ d > MaxOpen
    THEN [ok |-> FALSE, deep |-> d > MaxOpen, opts |-> <<>>]
    ELSE
    LET ls == LinesOf(f)
        n  == IF Files[f].nl THEN Len(ls) ELSE Len(ls) - 1
        RECURSIVE From(_)
        From(i) ==
            IF i > n THEN [ok |-> TRUE, deep |-> FALSE, opts |-> <<>>]
            ELSE LET l    == ls[i]
                     here == CASE l.kind = "opt"     -> [ok |-> TRUE, deep |-> FALSE,
                                                         opts |-> <<<<l.key, l.value>>>>]
                               [] l.kind = "include" -> Reading(l.value, d + 1)
                               [] OTHER              -> [ok |-> TRUE, deep |-> FALSE,
                                                         opts |-> <<>>]
                     rest == From(i + 1)
                 IN IF ~here.ok THEN here
                    ELSE [rest EXCEPT !.opts = here.opts \o @]
    IN From(1)

\* The map a reading fills: each key with its values in reading order.
MapOf(opts) ==
    [k \in {opts[i][1] : i \in DOMAIN opts} |->
        LET sel == SelectSeq(opts, LAMBDA p : p[1] = k)
        IN  [j \in DOMAIN sel |-> sel[j][2]]]
====
