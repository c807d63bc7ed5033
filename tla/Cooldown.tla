------------------------------ MODULE Cooldown ------------------------------
(***************************************************************************)
(* The dependency cooldown (proxy/interceptors/cooldown.go, npm_cooldown.go, *)
(* pypi_cooldown.go): which versions a metadata response loses, and what is  *)
(* reported of them.                                                        *)
(*                                                                         *)
(* Days are numbers.  A packument is its versions, the dates it gives, and   *)
(* its tags; a page of the Simple API is a set of files.  Go maps have no    *)
(* order: where two versions tie, the operators return every choice.        *)
(***************************************************************************)
EXTENDS Naturals, FiniteSets, FiniteSetsExt

CONSTANT NoVersion   \* "": no version, or a file name that cannot be read

NoDate == 0   \* days begin at 1

-----------------------------------------------------------------------------
(* cooldown.go                                                              *)

DaysSince(published, today) == IF published < today THEN today - published ELSE 0
Within(published, today, days) == DaysSince(published, today) < days
DaysLeft(published, today, days) ==
  IF DaysSince(published, today) < days THEN days - DaysSince(published, today) ELSE 0

TooNew(dates, today, days) == {v \in DOMAIN dates : Within(dates[v], today, days)}

\* The versions cooldownOldestVersion may return.
Oldest(dates) == {v \in DOMAIN dates : \A w \in DOMAIN dates : dates[v] <= dates[w]}

\* Those cooldownLatestEligibleVersion may return.
LatestEligible(dates, tooNew) ==
  LET eligible == DOMAIN dates \ tooNew
  IN {v \in eligible : \A w \in eligible : dates[w] <= dates[v]}

MalwareInWindow(feed, dates, today, days) == feed \cap TooNew(dates, today, days)

Report(malware, blocks) == [malware |-> malware, blocks |-> blocks]
Block(v, dates, today, days) == [version |-> v, left |-> DaysLeft(dates[v], today, days)]

\* recordCooldownStats: malware first, and then the oldest version when none
\* remains, or the pinned one when it is in the window.
Reports(feed, pinned, dates, remaining, today, days) ==
  LET malware == MalwareInWindow(feed, dates, today, days)
      blamed  == IF remaining = 0 THEN Oldest(dates)
                 ELSE IF pinned \in TooNew(dates, today, days) THEN {pinned} ELSE {}
      of(v)   == IF v \in malware THEN {} ELSE {Block(v, dates, today, days)}
  IN IF blamed = {} THEN {Report(malware, {})} ELSE {Report(malware, of(v)) : v \in blamed}

-----------------------------------------------------------------------------
(* npm_cooldown.go                                                          *)

\* parseMetadataTime: a date that does not parse is passed over.
NpmDates(meta) ==
  [v \in {w \in DOMAIN meta.time : meta.time[w] # NoDate} |-> meta.time[v]]

\* stripCooldownVersions: a tag of a stripped version is moved to the latest
\* that stays, or goes.
StripNpm(meta, tooNew) ==
  LET dates    == NpmDates(meta)
      latest   == LatestEligible(dates, tooNew)
      moved    == {t \in DOMAIN meta.tags : meta.tags[t] \in tooNew}
      kept     == IF latest = {} THEN DOMAIN meta.tags \ moved ELSE DOMAIN meta.tags
      targets(t) == IF t \in moved THEN latest ELSE {meta.tags[t]}
      every    == latest \cup {meta.tags[t] : t \in kept \ moved}
  IN { [versions |-> meta.versions \ tooNew,
        time     |-> [v \in DOMAIN meta.time \ tooNew |-> meta.time[v]],
        tags     |-> f] : f \in {g \in [kept -> every] : \A t \in kept : g[t] \in targets(t)} }

-----------------------------------------------------------------------------
(* pypi_cooldown.go                                                         *)

\* parsePEP691Files: the earliest date of a version's files.
PypiDates(files) ==
  LET dated == {f \in files : f.date # NoDate /\ f.version # NoVersion}
  IN [v \in {f.version : f \in dated} |-> Min({f.date : f \in {g \in dated : g.version = v}})]

\* stripCooldownFiles: every file of a version, dated or not; a file whose name
\* cannot be read is kept.
StripPypi(files, tooNew) == {f \in files : f.version \notin tooNew}
=============================================================================
