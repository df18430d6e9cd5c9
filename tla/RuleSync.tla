------------------------------ MODULE RuleSync ------------------------------
(***************************************************************************)
(* Trading rules of one user: the cloud's table (rule_service.py, the      *)
(* routes of rules.py) and the copy a local server keeps of it             *)
(* (rules_cache.py), refreshed when a heartbeat answer carries a version   *)
(* other than the last one seen (heartbeat.py, heartbeat_service.py).      *)
(*                                                                         *)
(* A rule is its version counter, its script, the stored verdict of the    *)
(* parser and its active flag.  The heartbeat carries the MAXIMUM of the   *)
(* counters, 0 without rules.  An update runs in a worker thread: it reads *)
(* the row, decides, and commits later, when the row may be another.       *)
(* Names ending in "Mutant" are faulty variants of what follows them.      *)
(***************************************************************************)
EXTENDS Integers, FiniteSets, FiniteSetsExt

CONSTANTS
    Rules,        \* names, unique per user
    Scripts,      \* scripts that parse
    BadScript,    \* a script the parser refuses
    NoRule,       \* no rule of that name, no update under way
    Editors,      \* worker threads that update rules at the same time
    Unknown,      \* no version seen yet: last_rules_version is None
    MaxEdits,     \* bound: changes of the table
    MaxFailures   \* bound: requests that fail

AllScripts == Scripts \union {BadScript}
\* A row, with a mark of history: was an update committed on a row that had changed
\* since the update read it?
Rule == [version : 1 .. MaxEdits, script : AllScripts, parses : BOOLEAN,
         active : BOOLEAN, raced : BOOLEAN]
Table == [Rules -> Rule \union {NoRule}]
Update == [rule : Rules, read : Rule, new : Rule]

ASSUME SyncAssumption ==
    /\ BadScript \notin Scripts
    /\ NoRule \notin Rule
    /\ MaxEdits \in Nat
    /\ MaxFailures \in Nat

VARIABLES
    table,      \* trading_rules
    editing,    \* editing[e]: the update of worker e between its read and its commit
    cache,      \* rules.json of the local server
    lastSeen,   \* last_rules_version
    ack,        \* version in the heartbeat answer being handled, or Unknown
    fetching,   \* is its fetch_rules under way?
    online,     \* does the WebSocket work?  Otherwise heartbeats go over HTTP
    wsToken,    \* is the access token it was started with still valid?
    failures,   \* consecutive_failures
    edits,      \* changes of the table so far
    failed      \* failed requests so far

syncVars == <<table, editing, cache, lastSeen, ack, fetching, online, wsToken, failures,
              edits, failed>>

Present(tab) == {r \in Rules : tab[r] # NoRule}

\* get_max_version, and rules_version of record_heartbeat.
MaxVersion(tab) == Max({0} \union {tab[r].version : r \in Present(tab)})

SyncTypeOK ==
    /\ table \in Table
    /\ editing \in [Editors -> Update \union {NoRule}]
    /\ cache \in Table
    /\ lastSeen \in Nat \union {Unknown}
    /\ ack \in Nat \union {Unknown}
    /\ fetching \in BOOLEAN
    /\ online \in BOOLEAN
    /\ wsToken \in BOOLEAN
    /\ failures \in 0 .. MaxFailures
    /\ edits \in 0 .. MaxEdits
    /\ failed \in 0 .. MaxFailures

NoRules == [r \in Rules |-> NoRule]

SyncInit ==
    /\ table = NoRules
    /\ editing = [e \in Editors |-> NoRule]
    /\ cache = NoRules
    /\ lastSeen = Unknown
    /\ ack = Unknown
    /\ fetching = FALSE
    /\ online = FALSE
    /\ wsToken \in BOOLEAN
    /\ failures = 0
    /\ edits = 0
    /\ failed = 0

----------------------------------------------------------------------------
(* The cloud's routes.  A user edits rules in the browser.                 *)

localState == <<cache, lastSeen, ack, fetching, online, wsToken, failures, failed>>

Edit ==
    /\ edits < MaxEdits
    /\ edits' = edits + 1
    /\ UNCHANGED localState

\* A script that does not parse is stored as it was sent, active.
ActivatedMutant(active, script) == active

\* create_rule, update_rule: a script with a parse error switches the rule off.
Activated(active, script) == active /\ script # BadScript

\* create_rule: version 1; a script that does not parse is stored, inactive.
CreateRule(r, script, active) ==
    /\ Edit
    /\ table[r] = NoRule
    /\ table' = [table EXCEPT ![r] = [version |-> 1, script |-> script,
                                      parses |-> script # BadScript,
                                      active |-> Activated(active, script),
                                      raced |-> FALSE]]
    /\ UNCHANGED editing

\* update_rule reads the row of rule r and assigns the new fields to its copy.
BeginUpdate(e, r, new) ==
    /\ edits + Cardinality({x \in Editors : editing[x] # NoRule}) < MaxEdits
    /\ editing[e] = NoRule
    /\ editing' = [editing EXCEPT ![e] = [rule |-> r, read |-> table[r], new |-> new]]
    /\ UNCHANGED <<table, edits, localState>>

\* A new script: a broken one switches the rule off.
UpdateScript(e, r, script, active) ==
    /\ table[r] # NoRule
    /\ BeginUpdate(e, r, [table[r] EXCEPT !.script = script, !.parses = script # BadScript,
                                          !.active = Activated(active, script)])

\* The flag alone, or neither: a request for "on" is refused when the row that was
\* read has a script that does not parse.
SwitchRule(e, r, active) ==
    /\ table[r] # NoRule
    /\ active => table[r].active \/ table[r].parses
    /\ BeginUpdate(e, r, [table[r] EXCEPT !.active = active])

\* What a commit makes of one field: SQLAlchemy writes those that differ from the
\* row it has read; the others stay what they have become.
Written(read, new, now) == IF new = read THEN now ELSE new

\* The commit.  The parser's verdict is part of a larger value (dsl_meta), which a new
\* script may change although the verdict is the same.
CommitUpdate(e) ==
    LET r == editing[e].rule
        read == editing[e].read
        new == editing[e].new
        now == table[r]
    IN /\ Edit
       /\ editing[e] # NoRule
       /\ \E parses \in {Written(read.parses, new.parses, now.parses)}
                         \union (IF new.script # read.script THEN {new.parses} ELSE {}) :
             table' = [table EXCEPT ![r] =
                          [version |-> read.version + 1,
                           script |-> Written(read.script, new.script, now.script),
                           parses |-> parses,
                           active |-> Written(read.active, new.active, now.active),
                           raced |-> now.raced \/ now # read]]
       /\ editing' = [editing EXCEPT ![e] = NoRule]

\* The commit fails, on a name that exists already for one: rolled back.
RollBack(e) ==
    /\ editing[e] # NoRule
    /\ editing' = [editing EXCEPT ![e] = NoRule]
    /\ UNCHANGED <<table, edits, localState>>

\* delete_rule: the row goes, and its version with it.  An update that has read it
\* finds no row to write to and is rolled back.
DeleteRule(r) ==
    /\ Edit
    /\ table[r] # NoRule
    /\ table' = [table EXCEPT ![r] = NoRule]
    /\ editing' = [e \in Editors |-> IF editing[e] # NoRule /\ editing[e].rule = r
                                     THEN NoRule ELSE editing[e]]

----------------------------------------------------------------------------
(* The local server's heartbeat loop and the handler of its answers.       *)

\* _handle_failure and the reset after a success.
Failure == failed < MaxFailures /\ failed' = failed + 1 /\ failures' = failures + 1

\* A heartbeat over the WebSocket is answered with the versions of that moment.
HeartbeatWs ==
    /\ online
    /\ ack = Unknown
    /\ ack' = MaxVersion(table)
    /\ failures' = 0
    /\ UNCHANGED <<table, editing, cache, lastSeen, fetching, online, wsToken, edits, failed>>

\* Over HTTP the answer is {success, data}: rules_version is looked up one level
\* too high, found missing, and nothing is compared or fetched.
HeartbeatHttp ==
    /\ ~online
    /\ failures > 0
    /\ failures' = 0
    /\ UNCHANGED <<table, editing, cache, lastSeen, ack, fetching, online, wsToken, edits, failed>>

HeartbeatFails ==
    /\ ~online
    /\ Failure
    /\ UNCHANGED <<table, editing, cache, lastSeen, ack, fetching, online, wsToken, edits>>

\* A version that went down is no change.
ChangedMutant == IF lastSeen = Unknown THEN TRUE ELSE ack > lastSeen

Changed == ack # lastSeen

\* _check_version_changes: another version than the last one starts a fetch.
NoticeVersion ==
    /\ ack # Unknown
    /\ ~fetching
    /\ Changed
    /\ fetching' = TRUE
    /\ UNCHANGED <<table, editing, cache, lastSeen, ack, online, wsToken, failures, edits, failed>>

SameVersion ==
    /\ ack # Unknown
    /\ ~fetching
    /\ ~Changed
    /\ ack' = Unknown
    /\ UNCHANGED <<table, editing, cache, lastSeen, fetching, online, wsToken, failures, edits, failed>>

\* The fetch returns the rules of its own moment; the version that is recorded is
\* the one of the heartbeat.
FetchRules ==
    /\ fetching
    /\ cache' = table
    /\ lastSeen' = ack
    /\ ack' = Unknown
    /\ fetching' = FALSE
    /\ UNCHANGED <<table, editing, online, wsToken, failures, edits, failed>>

\* The fetch raises: logged, and the version is recorded as seen all the same.
FetchFails ==
    /\ fetching
    /\ failed < MaxFailures
    /\ failed' = failed + 1
    /\ lastSeen' = ack
    /\ ack' = Unknown
    /\ fetching' = FALSE
    /\ UNCHANGED <<table, editing, cache, online, wsToken, failures, edits>>

\* The WebSocket comes and goes.
Offline ==
    /\ online
    /\ failed < MaxFailures
    /\ failed' = failed + 1
    /\ online' = FALSE
    /\ UNCHANGED <<table, editing, cache, lastSeen, ack, fetching, wsToken, failures, edits>>

\* update_token has no caller: the client connects with the token of its start.
Online ==
    /\ ~online
    /\ wsToken
    /\ online' = TRUE
    /\ UNCHANGED <<table, editing, cache, lastSeen, ack, fetching, wsToken, failures, edits,
                   failed>>

\* The token runs out: a working connection stays, none is made any more.
WsTokenExpires ==
    /\ wsToken
    /\ wsToken' = FALSE
    /\ UNCHANGED <<table, editing, cache, lastSeen, ack, fetching, online, failures, edits,
                   failed>>

\* The user's browser posts the rules it shows to /api/rules/sync.  Without rules
\* in the body the route fetches them with a client that has no token, is refused
\* and changes nothing.
SyncRules ==
    /\ cache' = table
    /\ UNCHANGED <<table, editing, lastSeen, ack, fetching, online, wsToken, failures, edits, failed>>

\* A new process: versions and counters are forgotten, the cache file stays.  The
\* token of the keyring may have run out and its renewal may fail: _run_loop then
\* tries in vain.
RestartSync ==
    /\ failed < MaxFailures
    /\ failed' = failed + 1
    /\ lastSeen' = Unknown
    /\ ack' = Unknown
    /\ fetching' = FALSE
    /\ failures' = 0
    /\ online' = FALSE
    /\ wsToken' \in BOOLEAN
    /\ UNCHANGED <<table, editing, cache, edits>>

EditRules ==
    \/ \E r \in Rules :
          \/ DeleteRule(r)
          \/ \E s \in AllScripts, a \in BOOLEAN :
                \/ CreateRule(r, s, a)
                \/ \E e \in Editors : UpdateScript(e, r, s, a) \/ SwitchRule(e, r, a)
    \/ \E e \in Editors : CommitUpdate(e) \/ RollBack(e)

HeartbeatStep == HeartbeatWs \/ NoticeVersion \/ SameVersion \/ FetchRules

SyncNext ==
    \/ EditRules
    \/ HeartbeatStep
    \/ HeartbeatHttp \/ HeartbeatFails \/ FetchFails
    \/ Offline \/ Online \/ WsTokenExpires
    \/ SyncRules
    \/ RestartSync

SyncSpec == SyncInit /\ [][SyncNext]_syncVars

----------------------------------------------------------------------------
\* The stored verdict is that of the stored script, and a broken script is inactive.
Sound(row) ==
    /\ row.parses <=> row.script # BadScript
    /\ row.active => row.parses

\* A rule whose script does not parse is never active, in the table and in the local
\* copy, whatever creations, edits and switches made it: unless one update was
\* committed on top of another one that it had not seen.
BrokenRulesInactive ==
    \A tab \in {table, cache} : \A r \in Rules :
        tab[r] # NoRule /\ ~tab[r].raced => Sound(tab[r])

\* An update under way belongs to a row, and what it makes of the row that it read is
\* as sound as that one.
UpdatesSound ==
    \A e \in Editors : editing[e] # NoRule =>
        /\ table[editing[e].rule] # NoRule
        /\ ~editing[e].read.raced => Sound(editing[e].new)

\* A rule's version is at most the number of changes of the whole table (overlapping
\* updates count as one); the failures in a row are some of all that have happened.
CountersBounded ==
    /\ \A r \in Rules : table[r] # NoRule => table[r].version <= edits
    /\ \A e \in Editors : editing[e] # NoRule => editing[e].read.version <= edits
    /\ failures <= failed

SyncInv == SyncTypeOK /\ BrokenRulesInactive /\ UpdatesSound /\ CountersBounded

\* Once the table is left alone the local server has seen its version, also when
\* the version went down because a rule was deleted: unless it lost its WebSocket
\* with a token that had run out, after which heartbeats carry no version.
VersionEventuallySeen == <>[](lastSeen = MaxVersion(table) \/ (~online /\ ~wsToken))

=============================================================================
