----------------------------- MODULE Moderation -----------------------------
(***************************************************************************)
(* Reports on content: ModerationService::report over ReportService, which *)
(* holds the reports in memory, and the table reports, into which each is  *)
(* copied and which nothing reads.  A report counts the distinct reporters *)
(* under the lock of the report service and acts on the count after it has *)
(* let go of it: from the threshold on it marks the post as a tombstone    *)
(* and then takes points off the author's reputation.  The reporter is the *)
(* pseudonym that is active when the call begins.                          *)
(***************************************************************************)
EXTENDS Integers, FiniteSets

CONSTANTS
    Reporters,     \* pseudonyms of the node
    Contents,      \* posts that are reported
    ReportCalls,   \* handlers of moderation.report
    Threshold,     \* TOMBSTONE_THRESHOLD
    MaxPerReporter,\* MAX_REPORTS_PER_REPORTER_PER_DAY
    MaxReports,    \* bound: reports of a reporter on a content
    MaxTroubles    \* bound: statements that fail, and restarts

ASSUME ModerationAssumption == IsFiniteSet(Reporters) /\ Threshold \in Nat \ {0}

VARIABLES
    filed,         \* ReportService::reports, as pairs of reporter and content
    reportTable,   \* table reports
    contentRow,    \* the row of the post: none, live or tomb
    report,        \* report[h]: a handler's place in report
    penalties,     \* penalties[c]: CommunityTombstone events for c's author
    accused,       \* history: all reports ever filed
    late,          \* history: posts that came after a report, or whose UPDATE failed
    byReports,     \* history: posts that reports have marked
    troubles

moderationVars == <<filed, reportTable, contentRow, report, penalties, accused,
                    late, byReports, troubles>>

NoReport == [pc |-> "idle", reporter |-> "", content |-> "", count |-> 0]

ModerationInit ==
    /\ filed = {} /\ reportTable = {} /\ accused = {} /\ late = {} /\ byReports = {}
    /\ contentRow = [c \in Contents |-> "none"]
    /\ report = [h \in ReportCalls |-> NoReport]
    /\ penalties = [c \in Contents |-> 0]
    /\ troubles = 0

ReportsBy(r) == {x \in filed : x[1] = r}
ReportsOn(reports, c) == {x \in reports : x[2] = c}

ReporterCount(reports, c) == Cardinality({x[1] : x \in ReportsOn(reports, c)})

CreateReport(r, c) == <<r, c>> \notin filed /\ filed' = filed \cup {<<r, c>>}

\* Too many reports, or a second one on the same content: the call ends there.
FileReport(h, r, c) ==
    /\ report[h] = NoReport
    /\ Cardinality(ReportsBy(r)) < MaxPerReporter
    /\ CreateReport(r, c)
    /\ report' = [report EXCEPT ![h] = [pc |-> "persist", reporter |-> r, content |-> c,
                                        count |-> ReporterCount(filed', c)]]
    /\ accused' = accused \cup {<<r, c>>} /\ Cardinality(accused') <= MaxReports
    /\ late' = IF contentRow[c] = "none" THEN late \cup {c} ELSE late
    /\ UNCHANGED <<reportTable, contentRow, penalties, byReports, troubles>>

\* Mutant: more than the threshold.
MutPersist(h) ==
    LET call == report[h] IN
    /\ call.pc = "persist"
    /\ reportTable' = reportTable \cup {<<call.reporter, call.content>>}
    /\ report' = [report EXCEPT ![h] = IF call.count > Threshold
                                       THEN [call EXCEPT !.pc = "tombstone"] ELSE NoReport]
    /\ UNCHANGED <<filed, contentRow, penalties, accused, late, byReports, troubles>>

\* INSERT OR IGNORE, and an error is ignored as well.
Persist(h) ==
    LET call == report[h] IN
    /\ call.pc = "persist"
    /\ \/ /\ reportTable' = reportTable \cup {<<call.reporter, call.content>>}
          /\ UNCHANGED troubles
       \/ troubles < MaxTroubles /\ troubles' = troubles + 1 /\ UNCHANGED reportTable
    /\ report' = [report EXCEPT ![h] = IF call.count >= Threshold
                                       THEN [call EXCEPT !.pc = "tombstone"] ELSE NoReport]
    /\ UNCHANGED <<filed, contentRow, penalties, accused, late, byReports>>

\* PostService::delete; its error is ignored.
TombstoneContent(h) ==
    LET c == report[h].content IN
    /\ report[h].pc = "tombstone"
    /\ \/ /\ contentRow' = [contentRow EXCEPT ![c] = IF @ = "none" THEN @ ELSE "tomb"]
          /\ byReports' = IF contentRow[c] = "none" THEN byReports ELSE byReports \cup {c}
          /\ UNCHANGED <<late, troubles>>
       \/ /\ troubles < MaxTroubles /\ troubles' = troubles + 1
          /\ late' = late \cup {c} /\ UNCHANGED <<contentRow, byReports>>
    /\ report' = [report EXCEPT ![h].pc = "penalise"]
    /\ UNCHANGED <<filed, reportTable, penalties, accused>>

\* lookup_post_author finds the author as long as there is a row.
Penalise(h) ==
    LET c == report[h].content IN
    /\ report[h].pc = "penalise"
    /\ penalties' = [penalties EXCEPT ![c] = IF contentRow[c] = "none" THEN @ ELSE @ + 1]
    /\ report' = [report EXCEPT ![h] = NoReport]
    /\ UNCHANGED <<filed, reportTable, contentRow, accused, late, byReports, troubles>>

\* A post is stored, but not one with a tombstone here; the sweep purges an old
\* tombstone.
StoreContent(c) ==
    /\ contentRow[c] = "none" /\ c \notin byReports
    /\ contentRow' = [contentRow EXCEPT ![c] = "live"]
    /\ UNCHANGED <<filed, reportTable, report, penalties, accused, late, byReports,
                   troubles>>

PurgeContent(c) ==
    /\ contentRow[c] = "tomb"
    /\ contentRow' = [contentRow EXCEPT ![c] = "none"]
    /\ UNCHANGED <<filed, reportTable, report, penalties, accused, late, byReports,
                   troubles>>

\* Reports and reputation live in memory; the table is not read back.
Reboot ==
    /\ troubles < MaxTroubles /\ troubles' = troubles + 1
    /\ filed' = {} /\ penalties' = [c \in Contents |-> 0]
    /\ report' = [h \in ReportCalls |-> NoReport]
    /\ UNCHANGED <<reportTable, contentRow, accused, late, byReports>>

ModerationNext ==
    \/ \E h \in ReportCalls, r \in Reporters, c \in Contents : FileReport(h, r, c)
    \/ \E h \in ReportCalls : Persist(h) \/ TombstoneContent(h) \/ Penalise(h)
    \/ \E c \in Contents : StoreContent(c) \/ PurgeContent(c)
    \/ Reboot

ModerationSpec == ModerationInit /\ [][ModerationNext]_moderationVars

----------------------------------------------------------------------------
\* Reports take a post away only when Threshold different reporters have named
\* this post, over restarts too.
TombstoneJustified ==
    \A c \in byReports : Cardinality({x[1] : x \in ReportsOn(accused, c)}) >= Threshold

\* Once Threshold reporters have named a post and every call has ended it is off
\* the node's feeds, whatever calls overlapped, unless it was not there yet when
\* it was reported or its UPDATE failed: nothing counts again.
QuorumHides ==
    (\A h \in ReportCalls : report[h] = NoReport) =>
       \A c \in Contents \ late :
          Cardinality({x[1] : x \in ReportsOn(filed, c)}) >= Threshold
             => contentRow[c] # "live"
=============================================================================
