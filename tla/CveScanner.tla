------------------------------ MODULE CveScanner ------------------------------
(***************************************************************************)
(* The scan of the dependencies for known vulnerabilities, run every day:  *)
(* security/cve_scanner.py.  A scan reads the dependencies of the          *)
(* repository, asks OSV for all of them in one request, asks for the       *)
(* details of every vulnerability found, asks GitHub for the advisories    *)
(* of upstream repositories and for the scores, and writes a report and an *)
(* alert file.  The files outlive the scan, the next one finds them.       *)
(*                                                                         *)
(* Every request is an action and may fail: a failure is caught and the    *)
(* scan goes on with less.  So it does with an answer that is shorter than *)
(* the request or is only the first page of a list.  An answer of an       *)
(* unexpected form raises where nothing catches it, and the scan ends      *)
(* without writing.  The order of the entries of one answer is left open.  *)
(* Scores are in tenths.                                                   *)
(***************************************************************************)
EXTENDS CveDependencies, Integers

CONSTANTS
  Repositories,  \* what the repository may contain
  Worlds,        \* what the databases may know, see World
  VulnId         \* the ids of vulnerabilities and advisories

VARIABLES
  repository, world,  \* environment, changes between scans only
  pc,          \* what the scan does, "idle" between scans
  jsonOnly,    \* the option --json-only
  deps,        \* all_deps
  results,     \* batch_results: for each dependency the entries OSV gave
  i,           \* the dependency that the loop of run_scan is at
  asked,       \* how many endpoints scan_github_advisories has asked for it
  advisories,  \* the advisories it got and that are not yet looked at
  found,       \* all_vulns
  whole,       \* history: every list this scan has asked for came, and came whole
  report,      \* cve_report.json and cve_report.md, an empty one before the first
  alert,       \* alert_high_severity.txt: what it lists, {} if there is no such file
  output       \* high_severity in GITHUB_OUTPUT, "" until it is written

scan == <<deps, results, i, asked, advisories, found, whole>>
files == <<report, alert, output>>
vars == <<repository, world, pc, jsonOnly, scan, files>>

HighThreshold == 70
LabelScores == [CRITICAL |-> 90, HIGH |-> 75, MODERATE |-> 50, MEDIUM |-> 50, LOW |-> 25]
OsvEcosystems == {"PyPI", "Debian", "npm", "crates.io", "Go", "Maven"}
Endpoints == <<"pip", "go", "rust", "npm", "repository">>
Score == 0..100
NoScore == -1
NoResults == [d \in 1..0 |-> {}]

Dependency == [ecosystem : {"PyPI", "crates.io", "ROS"}, name : STRING,
               version : STRING \cup {NoVersion},
               upstream : {Upstream(p) : p \in DOMAIN RosUpstreamRepos} \cup {NoRepo}]

\* What OSV and GitHub list, and of every id: whether it is GitHub's, or an alias
\* is; its label; the score on the advisory's page and in the REST answer.
World == [osv : SUBSET [ecosystem : {"PyPI", "crates.io"}, name : STRING, version : STRING,
                        id : VulnId],
          github : SUBSET [repo : STRING, endpoint : ToSet(Endpoints), id : VulnId],
          vuln : [VulnId -> [ghsa : BOOLEAN, alias : BOOLEAN,
                             label : DOMAIN LabelScores \cup {""},
                             page : Score \cup {NoScore}, rest : Score \cup {NoScore}]]]

ASSUME ScannerAssumption ==
  /\ Repositories \subseteq Repository
  /\ \A w \in Worlds : \A v \in {w.vuln[id] : id \in VulnId} :
       /\ v.page \in Score \cup {NoScore} /\ v.rest \in Score \cup {NoScore}
       /\ v.ghsa \in BOOLEAN /\ v.alias \in BOOLEAN
  /\ \A w \in Worlds : /\ {a.id : a \in w.osv} \subseteq VulnId
                       /\ {a.id : a \in w.github} \subseteq VulnId

\* An entry of batch_results: a stub as the batch gave it, with full details, or
\* without because they could not be had.
Entry == [id : VulnId, detail : {"stub", "full", "none"}]

\* A Vulnerability, for which dependency and from which source it is reported.
Vulnerability == [id : VulnId, dep : Dependency, source : {"OSV", "GitHub"}, full : BOOLEAN,
                  score : Score]

High(vulns) == {v \in vulns : v.score >= HighThreshold}
Ids(vulns) == {v.id : v \in vulns}

\* The numbers and sections of the Markdown report.  A package is labelled with
\* the ecosystem it was looked up in.
Ecosystem(v) == IF v.source = "GitHub" THEN "ROS" ELSE v.dep.ecosystem
Report(vulns) ==
  [total |-> vulns,
   rows |-> [e \in {"PyPI", "crates.io", "ROS"} |-> {v \in vulns : Ecosystem(v) = e}],
   critical |-> High(vulns)]

TypeOK ==
  /\ repository \in Repositories /\ world \in Worlds
  /\ pc \in {"idle", "batch", "details", "parse", "advisories", "publish", "alert"}
  /\ jsonOnly \in BOOLEAN /\ whole \in BOOLEAN
  /\ deps \in Seq(Dependency)
  /\ results \in [1..Len(deps) -> SUBSET Entry]
  /\ i \in 1..(Len(deps) + 1)
  /\ pc = "advisories" => i <= Len(deps)
  /\ asked \in 0..Len(Endpoints)
  /\ advisories \subseteq VulnId
  /\ found \subseteq Vulnerability
  /\ alert \subseteq Vulnerability
  /\ output \in {"", "true", "false"}

Init ==
  /\ repository \in Repositories /\ world \in Worlds
  /\ pc = "idle" /\ jsonOnly = FALSE
  /\ deps = <<>> /\ results = NoResults
  /\ i = 1 /\ asked = 0 /\ advisories = {}
  /\ found = {} /\ whole = TRUE
  /\ report = Report({}) /\ alert = {} /\ output = ""

-----------------------------------------------------------------------------
\* The collection of the dependencies in run_scan.
StartScan ==
  /\ pc = "idle" /\ pc' = "batch"
  /\ jsonOnly' \in BOOLEAN
  /\ deps' = AllDeps(repository)
  /\ results' = [d \in 1..Len(deps') |-> {}]
  /\ output' = ""
  /\ UNCHANGED <<repository, world, i, asked, advisories, found, whole, report, alert>>

\* What OSV knows of a package in a version, of all versions if none is given.
Affected(ecosystem, name, version) ==
  Ids({a \in world.osv : /\ a.ecosystem = ecosystem /\ a.name = name
                         /\ version \in {NoVersion, a.version}})

\* OSV looks a Python package up by its normalised name, however the query spells it.
OsvMatches(query) ==
  Affected(query.ecosystem,
           IF query.ecosystem = "PyPI" THEN Normalised(query.name) ELSE query.name,
           query.version)

\* Its answer to a batch: a list for each query in their order, or for the first
\* of them only; each list whole, or the first page of it.
WholeAnswer(queries) == [j \in DOMAIN queries |-> OsvMatches(queries[j])]
Given(queries, n, part) == [j \in 1..n |-> {id \in OsvMatches(queries[j]) : <<j, id>> \in part}]
OsvAnswers(queries) ==
  {Given(queries, n, part) :
     n \in 0..Len(queries),
     part \in SUBSET UNION {{j} \X OsvMatches(queries[j]) : j \in DOMAIN queries}}

\* _build_osv_query, with the name as it is written.
OsvQuery(dep) == [ecosystem |-> dep.ecosystem, name |-> dep.name, version |-> dep.version]

\* The queries for the dependencies that OSV can know, and beside them the list of
\* the indices of those dependencies.
KnownToOsv == {d \in DOMAIN deps : deps[d].ecosystem \in OsvEcosystems}
Queries == LET known == Keep(deps, KnownToOsv) IN [j \in DOMAIN known |-> OsvQuery(known[j])]
QueryIndicesFromOne == Keep([d \in DOMAIN deps |-> d + 1], KnownToOsv)  \* mutant: counted from 1
QueryIndices == Keep([d \in DOMAIN deps |-> d], KnownToOsv)

\* query_osv_batch: one request for all, and each list of the answer goes to the
\* dependency whose index stands at its place.  A failed request is an empty answer.
QueryOsvBatch ==
  /\ pc = "batch" /\ pc' = "details"
  /\ \E answer \in OsvAnswers(Queries) :
       /\ results' = [d \in 1..Len(deps) |->
                        [id : UNION {answer[j] : j \in {j \in DOMAIN answer : QueryIndices[j] = d}},
                         detail : {"stub"}]]
       /\ whole' = (whole /\ answer = WholeAnswer(Queries))
  /\ UNCHANGED <<repository, world, jsonOnly, deps, i, asked, advisories, found, files>>

Stubs(d) == {e \in results[d] : e.detail = "stub"}

\* enrich_vulnerabilities, one dependency after the other: the details of an entry
\* come, or the entry stays as it is.
FetchDetails ==
  /\ pc = "details"
  /\ \E d \in 1..Len(deps) :
       /\ \A c \in 1..(d - 1) : Stubs(c) = {}
       /\ \E e \in Stubs(d) : \E detail \in {"full", "none"} :
            results' = [results EXCEPT ![d] = (@ \ {e}) \cup {[id |-> e.id, detail |-> detail]}]
  /\ UNCHANGED <<repository, world, pc, jsonOnly, deps, i, asked, advisories, found,
                 whole, files>>

Enriched ==
  /\ pc = "details" /\ \A d \in 1..Len(deps) : Stubs(d) = {}
  /\ pc' = "parse"
  /\ UNCHANGED <<repository, world, jsonOnly, scan, files>>

-----------------------------------------------------------------------------
\* _fetch_ghsa_cvss_score: the page's score, else a positive one of the REST
\* answer, else none; either request may fail.
OfficialScores(id) ==
  ({world.vuln[id].page} \cap Score) \cup ({world.vuln[id].rest} \cap 1..100) \cup {NoScore}

\* The scores a vulnerability may be given: an official one if an id of GitHub is
\* known for it, else what its label stands for; a stub has neither label nor alias.
RawScores(id, full) ==        \* mutant: "no score" is taken for a score
  LET ghsa == world.vuln[id].ghsa \/ (full /\ world.vuln[id].alias)
  IN IF ghsa THEN OfficialScores(id) ELSE {0}
NoLabelScores(id, full) ==    \* mutant: the label does not count
  LET ghsa == world.vuln[id].ghsa \/ (full /\ world.vuln[id].alias)
  IN {IF s = NoScore THEN 0 ELSE s : s \in IF ghsa THEN OfficialScores(id) ELSE {NoScore}}
CvssScores(id, full) ==
  LET ghsa == world.vuln[id].ghsa \/ (full /\ world.vuln[id].alias)
      label == IF full THEN world.vuln[id].label ELSE ""
      estimate == IF label \in DOMAIN LabelScores THEN LabelScores[label] ELSE 0
  IN {IF s = NoScore THEN estimate ELSE s :
        s \in IF ghsa THEN OfficialScores(id) ELSE {NoScore}}

\* parse_vulnerabilities, one entry of dependency i.
ParseEntry ==
  /\ pc = "parse" /\ i <= Len(deps)
  /\ \E e \in results[i] :
       /\ results' = [results EXCEPT ![i] = @ \ {e}]
       /\ \E score \in CvssScores(e.id, e.detail = "full") :
            found' = found \cup {[id |-> e.id, dep |-> deps[i], source |-> "OSV",
                                  full |-> e.detail = "full", score |-> score]}
  /\ UNCHANGED <<repository, world, pc, jsonOnly, deps, i, asked, advisories, whole, files>>

\* The next dependency, or first the advisories of this one.
NextDependency ==
  /\ pc = "parse" /\ i <= Len(deps) /\ results[i] = {}
  /\ IF deps[i].upstream # NoRepo
       THEN pc' = "advisories" /\ UNCHANGED i
       ELSE i' = i + 1 /\ UNCHANGED pc
  /\ UNCHANGED <<repository, world, jsonOnly, deps, results, asked, advisories, found,
                 whole, files>>

\* What GitHub lists for a repository at one endpoint.
GithubLists(repo, endpoint) ==
  {a.id : a \in {a \in world.github : a.repo = repo /\ a.endpoint = endpoint}}

\* scan_github_advisories: five requests, of each the first page; each may fail by
\* itself, or break off within the page.
AskGithub ==
  /\ pc = "advisories" /\ asked < Len(Endpoints)
  /\ asked' = asked + 1
  /\ LET list == GithubLists(deps[i].upstream, Endpoints[asked + 1])
     IN \E page \in SUBSET list :
          /\ advisories' = advisories \cup page
          /\ whole' = (whole /\ page = list)
  /\ UNCHANGED <<repository, world, pc, jsonOnly, deps, results, i, found, files>>

\* parse_github_advisory, for an advisory that has not been reported yet.
SeenForDependency(id) ==  \* mutant: seen_ids begins empty for every dependency
  id \in Ids({v \in found : v.dep = deps[i]})
Seen(id) == id \in Ids(found)
ParseAdvisory ==
  /\ pc = "advisories" /\ asked = Len(Endpoints)
  /\ \E id \in advisories :
       /\ advisories' = advisories \ {id}
       /\ IF Seen(id)
            THEN UNCHANGED found
            ELSE \E score \in CvssScores(id, TRUE) :
                   found' = found \cup {[id |-> id, dep |-> deps[i], source |-> "GitHub",
                                         full |-> TRUE, score |-> score]}
  /\ UNCHANGED <<repository, world, pc, jsonOnly, deps, results, i, asked, whole, files>>

AdvisoriesDone ==
  /\ pc = "advisories" /\ asked = Len(Endpoints) /\ advisories = {}
  /\ pc' = "parse" /\ i' = i + 1 /\ asked' = 0
  /\ UNCHANGED <<repository, world, jsonOnly, deps, results, advisories, found, whole, files>>

-----------------------------------------------------------------------------
Forget ==
  /\ pc' = "idle"
  /\ jsonOnly' = FALSE /\ deps' = <<>> /\ results' = NoResults /\ i' = 1 /\ asked' = 0
  /\ advisories' = {} /\ found' = {} /\ whole' = TRUE

\* The end of run_scan; with --json-only also that of main.
ScanDone ==
  /\ pc = "parse" /\ i = Len(deps) + 1
  /\ \/ jsonOnly /\ Forget
     \/ ~jsonOnly /\ pc' = "publish" /\ UNCHANGED <<jsonOnly, scan>>
  /\ UNCHANGED <<repository, world, files>>

SaveReports ==
  /\ pc = "publish" /\ pc' = "alert"
  /\ report' = Report(found)
  /\ UNCHANGED <<repository, world, jsonOnly, scan, alert, output>>

\* write_alert_output and the end of main.
AlertLeftBehind ==    \* mutant: the alert file of an earlier scan is not removed
  /\ pc = "alert" /\ Forget
  /\ IF High(found) # {}
       THEN alert' = High(found) /\ output' = "true"
       ELSE output' = "false" /\ UNCHANGED alert
  /\ UNCHANGED <<repository, world, report>>
WriteAlertOutput ==
  /\ pc = "alert" /\ Forget
  /\ IF High(found) # {}
       THEN alert' = High(found) /\ output' = "true"
       ELSE alert' = {} /\ output' = "false"
  /\ UNCHANGED <<repository, world, report>>

\* An answer of an unexpected form raises where nothing catches it.
ScanRaises ==
  /\ pc \in {"batch", "details", "parse", "advisories"}
  /\ Forget
  /\ UNCHANGED <<repository, world, files>>

ScanStep ==
  \/ StartScan \/ QueryOsvBatch \/ FetchDetails \/ Enriched
  \/ ParseEntry \/ NextDependency \/ AskGithub \/ ParseAdvisory \/ AdvisoriesDone
  \/ ScanDone \/ SaveReports \/ WriteAlertOutput \/ ScanRaises

\* Between two scans somebody commits, and the databases learn of vulnerabilities.
TimePasses ==
  /\ pc = "idle"
  /\ repository' \in Repositories /\ world' \in Worlds
  /\ UNCHANGED <<pc, jsonOnly, scan, files>>

Next == ScanStep \/ TimePasses

Spec == Init /\ [][Next]_vars
-----------------------------------------------------------------------------
\* Between two scans the alert file lists what the report marks as critical, no
\* more and no less, whatever scans failed, raised or wrote nothing since; every
\* vulnerability of the report is in the row of an ecosystem; and the workflow opens
\* an issue just if the last scan left an alert.  The two files are written in full
\* and one after the other: a job killed between them, or a write that fails, is not
\* among the steps.
FilesAgree ==
  pc = "idle" =>
    /\ alert = report.critical
    /\ report.total = UNION {report.rows[e] : e \in DOMAIN report.rows}
    /\ output # "" => (output = "true") = (alert # {})

\* What the databases know of a dependency, by itself and not by its place.
OsvLists(dep) == IF dep.ecosystem \in OsvEcosystems THEN OsvMatches(OsvQuery(dep)) ELSE {}

\* Whatever requests failed and whatever part of an answer came, a vulnerability is
\* reported for a dependency that it affects.  query_osv_batch leaves out some
\* dependencies and gives the lists of the answer back by place; the details and
\* the loop of run_scan go by place again.
NothingInvented ==
  \A v \in found :
    IF v.source = "OSV"
      THEN v.id \in OsvLists(v.dep)
      ELSE v.dep.upstream # NoRepo
             /\ \E e \in ToSet(Endpoints) : v.id \in GithubLists(v.dep.upstream, e)

\* Of every external package that the files declare a scan reports what is known for
\* the version it is locked to, or for the first version that its requirement names:
\* however many files, spellings and versions share a name.  This holds if every
\* list came whole, which query_osv_batch and scan_github_advisories do not see to:
\* they read neither next_page_token nor GitHub's later pages.
NothingOverlooked ==
  pc = "publish" /\ whole =>
    /\ \A p \in DeclaredPython(repository) : Affected("PyPI", p[1], p[2]) \subseteq Ids(found)
    /\ \A c \in DeclaredCrates(repository) : Affected("crates.io", c[1], c[2]) \subseteq Ids(found)
    /\ \A repo \in DeclaredUpstream(repository) :
         \A e \in ToSet(Endpoints) : GithubLists(repo, e) \subseteq Ids(found)

\* An advisory that several packages share, or that OSV has listed, is reported once,
\* by its id: two ids of one advisory are not compared.
AdvisoriesOnce ==
  \A v \in found : v.source = "GitHub" => \A w \in found : w.id = v.id => w = v

\* cve-scan.yml:7 "Bei CVSS >= 7.0 wird ein GitHub Issue als Alert erstellt": a
\* vulnerability whose label and scores are all high counts as high, whichever
\* requests for its score failed, if its details have come.
Grave(id) ==
  LET v == world.vuln[id]
  IN /\ v.label \in {"HIGH", "CRITICAL"}
     /\ v.page \in {NoScore} \cup HighThreshold..100
     /\ v.rest \in {NoScore, 0} \cup HighThreshold..100
GraveIsAlerted == \A v \in found : v.full /\ Grave(v.id) => v \in High(found)
=============================================================================
