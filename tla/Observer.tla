------------------------------ MODULE Observer ------------------------------
(***************************************************************************)
(* The run-time oracle `checker/invariants.rs`, as the driver feeds it: a  *)
(* sweep over all servers after every event (`Cluster::check_invariants`), *)
(* which keeps watermarks so that it looks at an entry once.               *)
(*                                                                         *)
(* The servers it watches may be wrong in any way, which is what it is     *)
(* for: they write, replace and commit what they like.  They do keep the   *)
(* counters the watermarks rely on as `raft.rs` and the driver do.         *)
(* Everything committed is applied by the end of an event, so the applied  *)
(* index is the commit index.  The durable claim, a comparison of two      *)
(* numbers of one view, is left out; Raft and Wal are about it.            *)
(***************************************************************************)
EXTENDS Integers, Sequences, FiniteSetsExt, SequencesExt

CONSTANT Settings   \* the servers and bounds a run starts from

VARIABLES
    view,           \* NodeView, by server
    acted,          \* by server: the highest term of a message of its own that arrived
    obs,            \* Invariants
    reported,       \* Report: the kinds of violation found
    seen,           \* history: every entry in a running server's log at a sweep
    settled,        \* history: every entry such a server called committed
    crimes,         \* history: what was really done wrong
    env             \* the setting, and the events so far

vars == <<view, acted, obs, reported, seen, settled, crimes, env>>

N == env.n                  \* servers, swept in this order
Term == env.term            \* of the entries they write
Cmd == env.cmd
Config == env.config        \* the commands that change the membership
Does == env.does            \* bound: the kinds of event that happen
MaxLog == env.maxLog        \* bound: index of the last entry
MaxEvents == env.maxEvents  \* bound: events

Server == 1..N

ASSUME ObserverAssumption == \A e \in Settings :
    /\ e.n \in Nat \ {0} /\ e.term \subseteq Nat \ {0} /\ e.config \subseteq e.cmd
    /\ {e.maxLog, e.maxEvents} \subseteq Nat

-----------------------------------------------------------------------------
(* A view: the log above snap, and what else the driver reads off a        *)
(* server; reached, its highest term ever, and cut, the lowest index that  *)
(* it replaced since it leads, are read by nobody.                         *)
Uncut == MaxLog + 1

NewView == [up |-> TRUE, life |-> 0, truncations |-> 0, lead |-> FALSE, term |-> 0, reached |-> 0,
            cut |-> Uncut, log |-> <<>>, snap |-> 0, snapTerm |-> 0, commit |-> 0]

LastIndex(w) == w.snap + Len(w.log)
Holds(w, i) == i > w.snap /\ i <= LastIndex(w)
At(w, i) == w.log[i - w.snap]
TermAt(w, i) == IF i = w.snap THEN w.snapTerm ELSE IF Holds(w, i) THEN At(w, i).term ELSE -1

(* The entries of a view with an index in the set I. *)
Entries(w, I) == {[index |-> i, term |-> At(w, i).term, cmd |-> At(w, i).cmd] :
                  i \in {j \in I : Holds(w, j)}}

SameSlot(x, y) == x.index = y.index /\ x.term = y.term
Differ(x, y) == x.term # y.term \/ x.cmd # y.cmd

-----------------------------------------------------------------------------
(* `NodeTrack`, and its watermarks at the start of a check.                *)
NewTrack == [checked |-> 0, settled |-> 0, truncations |-> 0, life |-> 0, commit |-> 0]

NewObserver == [track |-> [n \in Server |-> NewTrack], entries |-> {}, committed |-> {},
                leaders |-> {}, verified |-> {}, lengths |-> {}, configs |-> {}]

Restarted(t, w) == t.life # w.life

(* Mutant of Refreshed: a truncation is not noticed. *)
RefreshedByRestart(t, w) ==
    LET again == Restarted(t, w)
    IN  [t EXCEPT !.life = w.life, !.truncations = w.truncations,
                  !.checked = IF again THEN 0 ELSE @,
                  !.settled = IF again THEN 0 ELSE @]

(* Everything is looked at again after a truncation or a restart. *)
Refreshed(t, w) ==
    LET again == Restarted(t, w) \/ t.truncations # w.truncations
    IN  [t EXCEPT !.life = w.life, !.truncations = w.truncations,
                  !.checked = IF again THEN 0 ELSE @,
                  !.settled = IF again THEN 0 ELSE @]

(* Mutant of Forgotten: what a server had committed is held against it. *)
Remembered(t) == [t EXCEPT !.checked = 0, !.settled = 0]

(* A server that is down has lost what was volatile. *)
Forgotten(t) == [t EXCEPT !.checked = 0, !.settled = 0, !.commit = 0]

(* A table from keys to numbers that are 0 at first, as a set of pairs. *)
Mark(table, key) == Max({0} \cup {p.at : p \in {q \in table : q.key = key}})
Marked(table, key, at) == {p \in table : p.key # key} \cup {[key |-> key, at |-> at]}

-----------------------------------------------------------------------------
(* The rules that look at one view and its track.                          *)
TermRule(n, w) == IF w.term < acted'[n] THEN {"term_regression"} ELSE {}

BoundRule(w) == IF w.commit > LastIndex(w) THEN {"commit_beyond_log"} ELSE {}

MonotoneRule(t, w, restarted) ==
    IF ~restarted /\ w.commit < t.commit THEN {"commit_regression"} ELSE {}

(* A leader lands only on an entry of its own term. *)
CommitRule(t, w, restarted) ==
    IF w.lead /\ w.commit > t.commit /\ ~restarted /\ TermAt(w, w.commit) \notin {-1, w.term}
    THEN {"commit_of_foreign_term"} ELSE {}

(* The membership changes of its own term that appeared since. *)
NewConfigs(o, n, w) ==
    {i \in (Mark(o.configs, <<n, w.term>>) + 1)..LastIndex(w) :
        Holds(w, i) /\ At(w, i).term = w.term /\ At(w, i).cmd \in Config}

(* Mutant of Overlaps: a change is counted against itself. *)
OverlapsItself(w, i) == \E j \in (w.commit + 1)..i : Holds(w, j) /\ At(w, j).cmd \in Config

Overlaps(w, i) == \E j \in (w.commit + 1)..(i - 1) : Holds(w, j) /\ At(w, j).cmd \in Config

ConfigRule(o, n, w) ==
    LET new == NewConfigs(o, n, w)
    IN  (IF new # {} /\ TermAt(w, w.commit) # w.term THEN {"config_before_term_commit"} ELSE {})
        \cup (IF \E i \in new : Overlaps(w, i) THEN {"concurrent_config_change"} ELSE {})

ElectionRule(o, n, w) ==
    IF \E p \in o.leaders : p.term = w.term /\ p.node # n THEN {"election_safety"} ELSE {}

AppendOnlyRule(o, n, w) ==
    IF LastIndex(w) < Mark(o.lengths, <<n, w.term>>) THEN {"leader_append_only"} ELSE {}

(* The entries committed under an earlier leader, not verified yet, that a *)
(* leader lacks.                                                           *)
Lacks(w, c) == c.index > w.snap /\ (~Holds(w, c.index) \/ Differ(At(w, c.index), c))

Unverified(o, n, w) == {c \in o.committed : c.index > Mark(o.verified, <<n, w.term>>)}

Owed(o, n, w) == {c \in Unverified(o, n, w) : c.by < w.term}

Missing(o, n, w) == {c \in Owed(o, n, w) : Lacks(w, c)}

(* Mutant of VerifiedTo: all that is committed counts as verified. *)
VerifiedAll(o, n, w) == Max({0} \cup {c.index : c \in o.committed} \cup {LastIndex(w)})

VerifiedTo(o, n, w) ==
    LET stop == Min({MaxLog + 1} \cup {c.index : c \in Missing(o, n, w)})
    IN  Max({Mark(o.verified, <<n, w.term>>)} \cup
            {c.index : c \in {d \in Unverified(o, n, w) : d.index < stop}})

CompletenessRule(o, n, w) == IF Missing(o, n, w) # {} THEN {"leader_completeness"} ELSE {}

LeaderRules(o, n, w) ==
    IF ~w.lead THEN {}
    ELSE ConfigRule(o, n, w) \cup ElectionRule(o, n, w) \cup AppendOnlyRule(o, n, w)
         \cup CompletenessRule(o, n, w)

LeaderNoted(o, n, w) ==
    LET key == <<n, w.term>>
        known == \E p \in o.leaders : p.term = w.term
    IN  IF ~w.lead THEN o
        ELSE [o EXCEPT
                !.leaders = IF known THEN @ ELSE @ \cup {[term |-> w.term, node |-> n]},
                !.configs = Marked(@, key, Max({Mark(@, key)} \cup NewConfigs(o, n, w))),
                !.lengths = Marked(@, key, Max({Mark(@, key), LastIndex(w)})),
                !.verified = Marked(@, key, VerifiedTo(o, n, w))]

(* The rules that compare entries with the ones on record, from the        *)
(* watermarks of track t on.                                               *)
Unchecked(t, w) == Entries(w, (t.checked + 1)..LastIndex(w))

MatchingRule(o, t, w) ==
    IF \E x \in Unchecked(t, w), y \in o.entries : SameSlot(x, y) /\ x.cmd # y.cmd
    THEN {"log_matching"} ELSE {}

(* Mutant of Unsettled: the last committed entry is left for later. *)
UnsettledButLast(t, w) == Entries(w, (t.settled + 1)..(w.commit - 1))

Unsettled(t, w) == Entries(w, (t.settled + 1)..w.commit)

CommittedRule(o, t, w) ==
    IF \E x \in Unsettled(t, w), y \in o.committed : x.index = y.index /\ Differ(x, y)
    THEN {"committed_entry_changed", "state_machine_safety"} ELSE {}

EntriesNoted(o, t, w) ==
    [o EXCEPT
       !.entries = @ \cup {x \in Unchecked(t, w) : ~\E y \in @ : SameSlot(x, y)},
       !.committed = @ \cup {[index |-> x.index, term |-> x.term, cmd |-> x.cmd, by |-> w.term] :
                             x \in {z \in Unsettled(t, w) : ~\E y \in @ : y.index = z.index}}]

Tracked(t, w) ==
    [t EXCEPT !.checked = Max({@} \cup {x.index : x \in Unchecked(t, w)}),
              !.settled = Max({@, w.snap, Min({w.commit, LastIndex(w)})}),
              !.commit = w.commit]

-----------------------------------------------------------------------------
(* `check_node`: acc is the observer and what it has reported. *)
CheckNode(acc, n) ==
    LET w == view'[n]
        o == acc.obs
        t == Refreshed(o.track[n], w)
        again == Restarted(o.track[n], w)
        led == LeaderNoted(o, n, w)
        track(new) == [o.track EXCEPT ![n] = new]
    IN  IF ~w.up THEN [acc EXCEPT !.obs.track = track(Forgotten(t))]
        ELSE [obs |-> [EntriesNoted(led, t, w) EXCEPT !.track = track(Tracked(t, w))],
              reported |-> acc.reported \cup TermRule(n, w) \cup BoundRule(w)
                             \cup MonotoneRule(t, w, again) \cup CommitRule(t, w, again)
                             \cup LeaderRules(o, n, w)
                             \cup MatchingRule(o, t, w) \cup CommittedRule(o, t, w)]

(* `observe`: the servers in order. *)
Observe ==
    LET acc == FoldLeft(CheckNode, [obs |-> obs, reported |-> reported], [n \in Server |-> n])
    IN  obs' = acc.obs /\ reported' = acc.reported

-----------------------------------------------------------------------------
(* History. *)
Running == {n \in Server : view'[n].up}

(* A leader lacks what an earlier term has committed. *)
Incomplete ==
    \E n \in Running : \E c \in settled' : view'[n].lead /\ c.by < view'[n].term /\ Lacks(view'[n], c)

(* Done in this event by server n, going by what it did and not by marks.  *)
Done(n) ==
    LET old == view[n]
        new == view'[n]
        sameLife == old.up /\ new.up
        sameLead == sameLife /\ old.lead /\ new.lead /\ old.term = new.term
        change == sameLead /\ LastIndex(new) > LastIndex(old) /\ Last(new.log).cmd \in Config
        unsettled == \E j \in DOMAIN old.log : old.log[j].cmd \in Config /\ j + old.snap > old.commit
    IN  {k \in {"commit_regression", "leader_append_only",
               "config_before_term_commit", "concurrent_config_change", "term_regression"} :
           CASE k = "commit_regression" -> sameLife /\ new.commit < old.commit
             [] k = "leader_append_only" -> sameLead /\ LastIndex(new) < LastIndex(old)
             [] k = "config_before_term_commit" -> change /\ TermAt(old, old.commit) # old.term
             [] k = "concurrent_config_change" -> change /\ unsettled
             [] OTHER -> new.up /\ new.term < acted'[n]}

Recorded ==
    /\ seen' = seen \cup UNION {Entries(view'[n], 1..MaxLog) : n \in Running}
    /\ settled' = settled \cup UNION
         {{[index |-> x.index, term |-> x.term, cmd |-> x.cmd, by |-> view'[n].term] :
             x \in Entries(view'[n], 1..view'[n].commit)} : n \in Running}
    /\ crimes' = crimes \cup UNION {Done(n) : n \in Server}
                   \cup (IF Incomplete THEN {"leader_completeness"} ELSE {})

-----------------------------------------------------------------------------
(* One event at server n, and the sweep after it. *)
Becomes(n, w) ==
    /\ env.events < MaxEvents
    /\ env' = [env EXCEPT !.events = @ + 1]
    /\ view' = [view EXCEPT ![n] = w]
    /\ Recorded
    /\ Observe

Entry == [term : Term, cmd : Cmd]

Append1(n, e) ==
    /\ "append" \in Does /\ view[n].up /\ LastIndex(view[n]) < MaxLog
    /\ view[n].lead => e.term = view[n].term
    /\ UNCHANGED acted
    /\ Becomes(n, [view[n] EXCEPT !.log = Append(@, e)])

(* `truncate`, and the entry that takes the place. *)
Replace(n, i, e) ==
    /\ "replace" \in Does /\ view[n].up /\ Holds(view[n], i)
    /\ view[n].lead => e.term = view[n].term
    /\ UNCHANGED acted
    /\ Becomes(n, [view[n] EXCEPT !.log = Append(SubSeq(@, 1, i - view[n].snap - 1), e),
                                  !.truncations = @ + 1,
                                  !.cut = IF view[n].lead THEN Min({@, i}) ELSE Uncut])

CommitTo(n, i) ==
    /\ "commit" \in Does /\ view[n].up
    /\ i \in view[n].snap..LastIndex(view[n]) /\ i # view[n].commit
    /\ UNCHANGED acted
    /\ Becomes(n, [view[n] EXCEPT !.commit = i])

(* `compact_to`. *)
Compact(n, i) ==
    /\ "compact" \in Does /\ view[n].up
    /\ Holds(view[n], i) /\ i <= view[n].commit
    /\ UNCHANGED acted
    /\ Becomes(n, [view[n] EXCEPT !.log = SubSeq(@, i - view[n].snap + 1, Len(@)),
                                  !.snap = i, !.snapTerm = At(view[n], i).term])

(* A snapshot that replaces the whole log: `from_snapshot`, no truncation. *)
Install(n, i, t) ==
    /\ "install" \in Does /\ view[n].up /\ ~view[n].lead
    /\ i > view[n].commit /\ i > view[n].snap
    /\ UNCHANGED acted
    /\ Becomes(n, [view[n] EXCEPT !.log = <<>>, !.snap = i, !.snapTerm = t, !.commit = i])

(* A server leads a term once, and no entry of that term is older than     *)
(* its leadership.                                                         *)
Lead(n, t) ==
    /\ "lead" \in Does /\ view[n].up /\ t >= view[n].term
    /\ \A p \in obs.lengths : p.key # <<n, t>>
    /\ \A j \in DOMAIN view[n].log : view[n].log[j].term < t
    /\ UNCHANGED acted
    /\ Becomes(n, [view[n] EXCEPT !.lead = TRUE, !.term = t, !.reached = Max({@, t}),
                                  !.cut = Uncut])

(* A later term is heard of. *)
Follow(n, t) ==
    /\ "lead" \in Does /\ view[n].up /\ t > view[n].term
    /\ UNCHANGED acted
    /\ Becomes(n, [view[n] EXCEPT !.lead = FALSE, !.term = t, !.reached = Max({@, t})])

(* `note_sent`: a message of this server arrives, perhaps when its sender  *)
(* has long crashed.                                                       *)
Speak(n, t) ==
    /\ "speak" \in Does /\ t \in (acted[n] + 1)..view[n].reached
    /\ acted' = [acted EXCEPT ![n] = t]
    /\ Becomes(n, view[n])

Crash(n) ==
    /\ "crash" \in Does /\ view[n].up
    /\ UNCHANGED acted
    /\ Becomes(n, [view[n] EXCEPT !.up = FALSE, !.life = @ + 1, !.lead = FALSE, !.commit = 0,
                                  !.truncations = 0])

(* `recover`: the log as far as the disk kept it, or with an entry back    *)
(* that had been replaced, and perhaps an older term.                      *)
Recover(n, i, e, t) ==
    LET w == view[n]
        kept == SubSeq(w.log, 1, i)
    IN  /\ "crash" \in Does /\ ~w.up
        /\ i \in 0..Len(w.log) /\ t \in {0, w.term}
        /\ UNCHANGED acted
        /\ \E log \in {kept} \cup (IF i > 0 /\ "replace" \in Does
                                   THEN {[kept EXCEPT ![i] = e]} ELSE {}) :
             Becomes(n, [w EXCEPT !.up = TRUE, !.log = log, !.commit = w.snap, !.term = t])

(* The run ends. *)
Over == UNCHANGED vars

Init ==
    /\ env \in Settings
    /\ view = [n \in Server |-> NewView]
    /\ acted = [n \in Server |-> 0]
    /\ obs = NewObserver
    /\ reported = {} /\ seen = {} /\ settled = {} /\ crimes = {}

Next ==
    \/ \E n \in Server :
         \/ Crash(n)
         \/ \E e \in Entry : Append1(n, e) \/ \E i \in 1..MaxLog : Replace(n, i, e)
         \/ \E i \in 0..MaxLog : \/ CommitTo(n, i) \/ Compact(n, i)
                                 \/ \E t \in Term : Install(n, i, t)
         \/ \E t \in Term : Lead(n, t) \/ Follow(n, t) \/ Speak(n, t)
         \/ \E i \in 0..MaxLog : \E e \in Entry : \E t \in Term \cup {0} : Recover(n, i, e, t)
    \/ Over

Spec == Init /\ [][Next]_vars

-----------------------------------------------------------------------------
(* Log matching is reported exactly when some index and term has ever been *)
(* seen with two commands, wherever and in whatever order, through         *)
(* truncations, compaction and restarts (`check_node`, the watermark       *)
(* `checked_upto`).  An installed snapshot raises no truncation count, and *)
(* is left out.                                                            *)
MatchingIsChecked ==
    "install" \notin Does =>
      ("log_matching" \in reported <=> \E x, y \in seen : SameSlot(x, y) /\ x.cmd # y.cmd)

(* A change of what is committed is reported exactly when two servers, or  *)
(* one at two times, called different entries committed at one index       *)
(* (`check_node`, the watermark `committed_checked`).                      *)
CommittedIsChecked ==
    "committed_entry_changed" \in reported <=>
        \E x, y \in settled : x.index = y.index /\ Differ(x, y)

(* Nobody is accused of what has not been done: a restart is not a step    *)
(* backwards, a compacted log is not a shorter one, and a leader that was  *)
(* left behind owes nothing to its successors.                             *)
NoFalseAlarms ==
    reported \cap {"commit_regression", "leader_append_only", "term_regression",
                   "leader_completeness"} \subseteq crimes

(* A server that leads without an entry which an earlier term has          *)
(* committed, and which is on record.                                      *)
LeadsWithout(n, c) ==
    n \in Running /\ view'[n].lead /\ c.by < view'[n].term /\ Lacks(view'[n], c)

(* A leader without an entry that an earlier term has committed, and that  *)
(* is on record, is reported at the next sweep, once a leadership is under *)
(* way as much as at its start, whoever records what in between            *)
(* (`leader_verified`).  Two cases are left out.  What a leader has cut    *)
(* off its own log may have been verified before, and `leader_verified` is *)
(* not reset by a truncation: such a leader goes unreported, by this rule  *)
(* and, if its log is as long as before, by the append-only rule too.  And *)
(* an installed snapshot leaves a gap in the record that may be filled     *)
(* below the mark.                                                         *)
LeadersAreChecked ==
    [][\A n \in Server : \A c \in obs.committed :
         LeadsWithout(n, c) /\ c.index < view'[n].cut /\ "install" \notin Does =>
             "leader_completeness" \in reported']_vars

(* A membership change is reported exactly when its leader proposed it     *)
(* before an entry of its own term was committed, or over a change that    *)
(* was not; one that was in order stays so, whatever is committed and      *)
(* compacted later (`config_checked`).  The leaders that change it do not  *)
(* cut their logs: a change proposed again at an index that was looked at  *)
(* before would not be looked at.                                          *)
ChangesAreChecked ==
    \A k \in {"config_before_term_commit", "concurrent_config_change"} :
        k \in reported <=> k \in crimes
=============================================================================
