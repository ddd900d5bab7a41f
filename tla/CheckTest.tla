----------------------------- MODULE CheckTest -----------------------------
(***************************************************************************)
(* The verdict on a simulation log (bin/check_test.py).  A log without     *)
(* TEST_CHECK_ directives is searched as a whole; with one, it is read     *)
(* line by line, and each directive changes the signatures that count as   *)
(* errors from there on.                                                   *)
(*                                                                         *)
(* A line is what the checker can tell of it: the error signatures and the *)
(* project's failure pattern it matches, a finish signature, a seed, its   *)
(* directive, and the part of a signature that spans two lines.            *)
(***************************************************************************)
EXTENDS Sorting, SequencesExt

CONSTANTS
  Default,   \* the signatures that are errors at the start
  Line,      \* the lines a log may have
  MaxLines,  \* bound: lines of a log
  Limits     \* values of --error-limit

Sig == Default \cup UNION {l.errors : l \in Line} \cup {l.sig : l \in Line}
Directives == {"enable", "disable"}

ASSUME CheckTestAssumption ==
  /\ Line \subseteq [errors : SUBSET Sig, fails : BOOLEAN, finish : BOOLEAN, seed : BOOLEAN,
                     directive : Directives \cup {"none"}, sig : Sig, part : {"none", "head", "tail"}]
  /\ MaxLines \in Nat /\ Limits \subseteq Nat \ {0}

VARIABLES
  log, limit,      \* the lines, --error-limit
  path,            \* "static", "dynamic" or not chosen yet
  next,            \* the line to be read
  active,          \* active_signatures
  errors, seeds,   \* error_lines, seed_lines: by their numbers
  found,           \* found_finish
  verdict

scanVars == <<log, limit, path, next, active, errors, seeds, found, verdict>>

CheckInit ==
  /\ log \in UNION {[1..n -> Line] : n \in 0..MaxLines} /\ limit \in Limits
  /\ path = "none" /\ next = 1 /\ active = Default
  /\ errors = <<>> /\ seeds = <<>> /\ found = FALSE /\ verdict = "none"

\* The first n numbers of lines
FirstNumbers(n, S) == SubSeq(Numbers(S), 1, Min({n, Cardinality(S)}))

Spans(i) == i < Len(log) /\ log[i].part = "head" /\ log[i + 1].part = "tail"

\* Faulty: the project's failure pattern is not part of the search
StaticMatchBuiltIn(i) == log[i].errors \cap Default # {} \/ Spans(i)

\* Where a search over the whole text finds an error
StaticMatch(i) == log[i].errors \cap Default # {} \/ log[i].fails \/ Spans(i)

\* Faulty: the search for seeds ends with the first one
ScanStaticFirstSeed ==
  /\ path = "none" /\ \A i \in DOMAIN log : log[i].directive = "none"
  /\ path' = "static"
  /\ errors' = FirstNumbers(limit, {i \in DOMAIN log : StaticMatch(i)})
  /\ seeds' = FirstNumbers(1, {i \in DOMAIN log : log[i].seed})
  /\ found' = \E i \in DOMAIN log : log[i].finish
  /\ UNCHANGED <<log, limit, next, active, verdict>>

\* The first lines with an error, up to the limit; all seeds; any finish signature
ScanStatic ==
  /\ path = "none" /\ \A i \in DOMAIN log : log[i].directive = "none"
  /\ path' = "static"
  /\ errors' = FirstNumbers(limit, {i \in DOMAIN log : StaticMatch(i)})
  /\ seeds' = Numbers({i \in DOMAIN log : log[i].seed})
  /\ found' = \E i \in DOMAIN log : log[i].finish
  /\ UNCHANGED <<log, limit, next, active, verdict>>

FallBack ==
  /\ path = "none" /\ \E i \in DOMAIN log : log[i].directive # "none"
  /\ path' = "dynamic"
  /\ UNCHANGED <<log, limit, next, active, errors, seeds, found, verdict>>

\* Faulty: a directive is always taken, a line that repeats one is never looked at
UpdatesAny(line) == line.directive # "none"

\* update_signatures: a directive that changes nothing is a line like others
Updates(line) ==
  \/ line.directive = "enable" /\ line.sig \notin active
  \/ line.directive = "disable" /\ line.sig \in active

\* Faulty: the limit is only looked at when the log ends
ReadingPastLimit == path = "dynamic" /\ next \in DOMAIN log /\ verdict = "none"

Reading == path = "dynamic" /\ next \in DOMAIN log /\ verdict = "none" /\ Len(errors) < limit

UpdateSignatures ==
  /\ Reading /\ Updates(log[next])
  /\ active' = IF log[next].directive = "enable" THEN active \cup {log[next].sig}
               ELSE active \ {log[next].sig}
  /\ next' = next + 1
  /\ UNCHANGED <<log, limit, path, errors, seeds, found, verdict>>

\* Faulty: a line of the finish is not searched for errors
IsErrorUnlessFinish(line) == (line.errors \cap active # {} \/ line.fails) /\ ~line.finish

IsError(line) == line.errors \cap active # {} \/ line.fails

\* An error, else the first finish, else a seed
ReadLine ==
  /\ Reading /\ ~Updates(log[next])
  /\ LET line == log[next] IN
     CASE IsError(line) -> errors' = Append(errors, next) /\ UNCHANGED <<seeds, found>>
       [] ~IsError(line) /\ line.finish /\ ~found -> found' = TRUE /\ UNCHANGED <<errors, seeds>>
       [] ~IsError(line) /\ ~(line.finish /\ ~found) ->
            seeds' = (IF line.seed THEN Append(seeds, next) ELSE seeds) /\ UNCHANGED <<errors, found>>
  /\ next' = next + 1
  /\ UNCHANGED <<log, limit, path, active, verdict>>

Scanned == path = "static" \/ (path = "dynamic" /\ ~Reading)

JudgeLog ==
  /\ Scanned /\ verdict = "none"
  /\ verdict' = IF errors # <<>> THEN "errors" ELSE IF ~found THEN "no finish" ELSE "pass"
  /\ UNCHANGED <<log, limit, path, next, active, errors, seeds, found>>

CheckNext == ScanStatic \/ FallBack \/ UpdateSignatures \/ ReadLine \/ JudgeLog

CheckSpec == CheckInit /\ [][CheckNext]_scanVars

----------------------------------------------------------------------------
(* What the log says, line by line, without a state *)

\* A signature counts at a line as the last directive about it before that line says
ActiveAt(s, i) ==
  LET told == {j \in 1..(i - 1) : log[j].directive # "none" /\ log[j].sig = s}
  IN  IF told = {} THEN s \in Default ELSE log[Max(told)].directive = "enable"

Told(i) == log[i].directive # "none" /\ (log[i].directive = "enable") # ActiveAt(log[i].sig, i)

Wrong(i) == ~Told(i) /\ (log[i].fails \/ \E s \in log[i].errors : ActiveAt(s, i))

Expected ==
  IF \E i \in DOMAIN log : Wrong(i) THEN "errors"
  ELSE IF \E i \in DOMAIN log : ~Told(i) /\ log[i].finish THEN "pass" ELSE "no finish"

\* The log, its scan and the verdict are of their kinds
ScanTypeOK ==
  /\ log \in Seq(Line) /\ next \in 1..(Len(log) + 1) /\ active \subseteq Sig
  /\ errors \in Seq(DOMAIN log) /\ seeds \in Seq(DOMAIN log) /\ Len(errors) <= limit
  /\ verdict \in {"none", "errors", "no finish", "pass"}

\* A log read line by line passes when it has a finish signature and no line matches a signature
\* that counts there, whatever was enabled and disabled in between and wherever reading stopped
DynamicVerdict == path = "dynamic" /\ verdict # "none" => verdict = Expected

\* The search over the whole log comes to the same verdict as reading it line by line
StaticVerdict == path = "static" /\ verdict # "none" => verdict = Expected

\* The error lines reported are the first ones of the log, in order, as many as the limit allows
FirstErrorsReported ==
  verdict # "none" => errors = FirstNumbers(limit, {i \in DOMAIN log : Wrong(i)})

\* A failing report names every seed printed before the first error, unless the same line also
\* ends the log
SeedsReported ==
  verdict = "errors" =>
    \A i \in 1..(errors[1] - 1) :
      log[i].seed /\ ~log[i].finish /\ ~Told(i) => i \in ToSet(seeds)

\* What a verdict and its report say of a log
CheckTestInv == ScanTypeOK /\ DynamicVerdict /\ StaticVerdict /\ FirstErrorsReported /\ SeedsReported
=============================================================================
