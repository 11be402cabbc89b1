------------------------- MODULE PolicyVersionPages ------------------------
(***************************************************************************)
(* The Policy Versions of the client                                       *)
(* (client/src/policy-versions/PolicyVersionCatalog.tsx and                *)
(* PublishPolicyVersionDrawer.tsx) against the server that publishes and   *)
(* compiles them.  The drawer covers the list for a pointer only: the      *)
(* keyboard reaches the toolbar and the rows behind it, so a version can   *)
(* be opened, or the drawer toggled, while a publication is under way.     *)
(* Other users publish and compile meanwhile.                              *)
(***************************************************************************)
EXTENDS Naturals, Sequences, FiniteSets, SequencesExt

CONSTANTS Ids,           \* Policy Version ids
          Published,     \* those published before, newest first
          Role,          \* of the signed-in user
          None,
          MaxVisits,     \* bound on the versions opened
          MaxPublishes,  \* bound on the publications of this user
          MaxOthers      \* bound on what other users do

IdAssumption ==
  Published \in Seq(Ids) /\ IsInjective(Published) /\ None \notin Ids

Work == {"compile", "download"}

VARIABLES published, \* server: ids, newest first
          sets,      \* server: the Compiled Rule Set of each version, 0 if none
          made,      \* sets made so far
          list,      \* status and ids listed
          loads,     \* requests of the list: [initial, value], None unread
          open,      \* publishDrawerOpen
          form,      \* the drawer: id, summary, publishing, error, instance
          posts,     \* publications in flight: [id, form, got]
          kept,      \* history: ids the drawer reported as published
          selected,
          detail,    \* status, snapshot, set [of, n], busy, failed, instance;
                     \* history: overtaken, the versions whose compilation
                     \* was under way here when another one was opened
          reply,     \* the load of the detail: [of, set], or None
          jobs,      \* compilations and downloads in flight: [work, of, detail, got]
          visits, publishes, others
server == <<published, sets, made>>
catalog == <<list, loads, kept>>
drawer == <<open, form>>
shown == <<selected, detail, reply, visits>>
vars == <<published, sets, made, list, loads, open, form, posts, kept, selected,
          detail, reply, jobs, visits, publishes, others>>
-----------------------------------------------------------------------------
(* The server.                                                             *)
IsNew(id) == id \notin ToSet(published)
CompiledSet(v) == IF sets[v] = 0 THEN made + 1 ELSE sets[v]

Publish(id) == published' = <<id>> \o published /\ UNCHANGED <<sets, made>>
Compile(v) ==
  /\ sets' = [sets EXCEPT ![v] = CompiledSet(v)]
  /\ made' = IF CompiledSet(v) > made THEN CompiledSet(v) ELSE made
  /\ UNCHANGED published

OtherUser ==
  /\ others < MaxOthers
  /\ others' = others + 1
  /\ \/ \E id \in Ids : IsNew(id) /\ Publish(id)
     \/ \E v \in ToSet(published) : Compile(v)
  /\ UNCHANGED <<catalog, drawer, posts, shown, jobs, publishes>>
-----------------------------------------------------------------------------
NewForm == [id |-> None, summary |-> FALSE, publishing |-> FALSE, error |-> FALSE,
            instance |-> visits]
NoDetail == [status |-> "closed", snapshot |-> None, set |-> None, busy |-> {},
             failed |-> {}, instance |-> 0, overtaken |-> {}]

Init ==
  /\ published = Published
  /\ sets \in [Ids -> {0, 1}]
  /\ \A v \in Ids : sets[v] = 1 => Published # <<>> /\ v = Head(Published)
  /\ made = 1
  /\ list = [status |-> "loading", items |-> <<>>]
  /\ loads = {[initial |-> TRUE, number |-> 0, value |-> None]}
  /\ visits = 0 /\ publishes = 0 /\ others = 0
  /\ open = FALSE /\ form = NewForm
  /\ posts = {} /\ kept = {}
  /\ selected = None /\ detail = NoDetail /\ reply = None /\ jobs = {}

AfterFailure(status) == "error"

(* The list: the effect of the catalogue, or the refresh after a           *)
(* publication, whose failure leaves the list alone.                       *)
ReadList ==
  /\ \E r \in loads : /\ r.value = None
                      /\ loads' = (loads \ {r}) \cup {[r EXCEPT !.value = published]}
  /\ UNCHANGED <<server, list, kept, drawer, posts, shown, jobs, publishes, others>>
ListArrives ==
  /\ \E r \in loads : /\ r.value # None
                      /\ loads' = loads \ {r}
                      /\ list' = [status |-> "ready", items |-> r.value]
  /\ UNCHANGED <<server, kept, drawer, posts, shown, jobs, publishes, others>>
ListFails ==
  /\ \E r \in loads :
       /\ loads' = loads \ {r}
       /\ list' = IF r.initial THEN [list EXCEPT !.status = AfterFailure(@)] ELSE list
  /\ UNCHANGED <<server, kept, drawer, posts, shown, jobs, publishes, others>>
-----------------------------------------------------------------------------
(* The drawer, drawn with the list only.                                   *)
ListShown == selected = None
canPublish == Role \in {"admin", "approver"}
canCompile == Role = "admin"
DrawerShown == ListShown /\ open
DetailShown == detail.status = "ready"
SetShown == DetailShown /\ detail.set # None

ToggleDrawer ==
  /\ ListShown /\ list.status = "ready" /\ canPublish
  /\ open' = ~open
  /\ form' = IF open THEN NewForm ELSE form
  /\ UNCHANGED <<server, catalog, posts, shown, jobs, publishes, others>>

(* Escape, the backdrop and the close button.                              *)
onClose ==
  /\ DrawerShown /\ ~form.publishing
  /\ open' = FALSE
  /\ form' = NewForm
  /\ UNCHANGED <<server, catalog, posts, shown, jobs, publishes, others>>

Fill ==
  /\ DrawerShown /\ ~form.publishing
  /\ \E id \in Ids \cup {None}, s \in BOOLEAN :
       form' = [form EXCEPT !.id = id, !.summary = s, !.error = FALSE]
  /\ UNCHANGED <<server, catalog, open, posts, shown, jobs, publishes, others>>

handlePublish ==
  /\ DrawerShown /\ ~form.publishing
  /\ IF form.id = None \/ ~form.summary
     THEN /\ form' = [form EXCEPT !.error = TRUE]
          /\ UNCHANGED <<posts, publishes>>
     ELSE /\ publishes < MaxPublishes
          /\ publishes' = publishes + 1
          /\ form' = [form EXCEPT !.publishing = TRUE, !.error = FALSE]
          /\ posts' = posts \cup {[id |-> form.id, form |-> form.instance,
                                   number |-> publishes, got |-> "pending"]}
  /\ UNCHANGED <<server, catalog, open, shown, jobs, others>>

(* The server refuses when the id is taken, or when no rule is approved.   *)
PublishAnswered ==
  /\ \E p \in posts :
       /\ p.got = "pending"
       /\ \/ /\ IsNew(p.id)
             /\ Publish(p.id)
             /\ posts' = (posts \ {p}) \cup {[p EXCEPT !.got = "published"]}
          \/ /\ UNCHANGED server
             /\ posts' = (posts \ {p}) \cup {[p EXCEPT !.got = "refused"]}
  /\ UNCHANGED <<catalog, drawer, shown, jobs, publishes, others>>
-----------------------------------------------------------------------------
(* The detail: another version in the same instance keeps what is not      *)
(* reset by its effect, an instance that is gone keeps nothing.            *)
Load(v) == [of |-> v, set |-> None]
LoadOf(v) == Load(v)
SameInstance(j) == ~ListShown /\ j.detail = detail.instance
Compiling == {j.of : j \in {k \in jobs : k.work = "compile" /\ SameInstance(k)}}

ShowVersion(v) ==
  IF v = selected THEN UNCHANGED shown
  ELSE /\ selected' = v
       /\ visits' = visits + 1
       /\ detail' = [detail EXCEPT !.status = "loading", !.set = None,
                       !.instance = IF selected = None THEN visits + 1 ELSE @,
                       !.overtaken = Compiling]
       /\ reply' = LoadOf(v)

OpenVersion ==
  /\ ListShown /\ list.status = "ready"
  /\ visits < MaxVisits
  /\ \E v \in ToSet(list.items) : ShowVersion(v)
  /\ form' = NewForm
  /\ UNCHANGED <<server, catalog, open, posts, jobs, publishes, others>>

onBack ==
  /\ ~ListShown
  /\ selected' = None /\ detail' = NoDetail /\ reply' = None
  /\ form' = NewForm
  /\ UNCHANGED <<server, catalog, open, posts, jobs, visits, publishes, others>>

(* The optimistic list: the others in their order behind the new one.      *)
OthersAt(id) == {i \in DOMAIN list.items : list.items[i] # id}
Prepended(id) ==
  <<id>> \o [k \in 1..Cardinality(OthersAt(id)) |->
               list.items[CHOOSE i \in OthersAt(id) :
                            Cardinality({j \in OthersAt(id) : j <= i}) = k]]

handlePublished(id) ==
  /\ list' = [status |-> "ready", items |-> Prepended(id)]
  /\ kept' = kept \cup {id}
  /\ open' = FALSE
  /\ form' = NewForm
  /\ ShowVersion(id)
  /\ loads' = loads \cup
       {[initial |-> FALSE, number |-> Cardinality(kept) + 1, value |-> None]}

Succeeded(p) == p.got = "published"

PublishArrives ==
  /\ \E p \in posts :
       /\ posts' = posts \ {p}
       /\ Succeeded(p)
       /\ handlePublished(p.id)
  /\ UNCHANGED <<server, jobs, publishes, others>>

(* Refused, or the answer is lost: the drawer shows it if it is there.     *)
PublishFails ==
  /\ \E p \in posts :
       /\ posts' = posts \ {p}
       /\ form' = IF ListShown /\ p.form = form.instance
                  THEN [form EXCEPT !.publishing = FALSE, !.error = TRUE]
                  ELSE form
  /\ UNCHANGED <<server, catalog, open, shown, jobs, publishes, others>>
-----------------------------------------------------------------------------
ReadVersion ==
  /\ reply # None
  /\ reply.set = None
  /\ reply' = [reply EXCEPT !.set = sets[reply.of]]
  /\ UNCHANGED <<server, catalog, drawer, posts, selected, detail, jobs, visits,
                 publishes, others>>
SetOf(v, n) == IF n = 0 THEN None ELSE [of |-> v, n |-> n]
VersionArrives ==
  /\ reply # None
  /\ reply.set # None
  /\ reply' = None
  /\ detail' = [detail EXCEPT !.status = "ready", !.snapshot = reply.of,
                              !.set = SetOf(reply.of, reply.set)]
  /\ UNCHANGED <<server, catalog, drawer, posts, selected, jobs, visits, publishes,
                 others>>
VersionFails ==
  /\ reply # None
  /\ reply' = None
  /\ detail' = [detail EXCEPT !.status = AfterFailure(@)]
  /\ UNCHANGED <<server, catalog, drawer, posts, selected, jobs, visits, publishes,
                 others>>

(* handleCompile and handleDownload.                                       *)
Start(w) ==
  /\ DetailShown
  /\ w = "compile" => canCompile
  /\ w \notin detail.busy
  /\ detail' = [detail EXCEPT !.busy = @ \cup {w}, !.failed = @ \ {w}]
  /\ jobs' = jobs \cup {[work |-> w, of |-> selected, detail |-> detail.instance,
                         got |-> 0]}
  /\ UNCHANGED <<server, catalog, drawer, posts, selected, reply, visits, publishes,
                 others>>

CompileAnswered ==
  /\ \E j \in jobs :
       /\ j.work = "compile" /\ j.got = 0
       /\ Compile(j.of)
       /\ jobs' = (jobs \ {j}) \cup {[j EXCEPT !.got = CompiledSet(j.of)]}
  /\ UNCHANGED <<catalog, drawer, posts, shown, publishes, others>>

JobEnds ==
  /\ \E j \in jobs, ok \in BOOLEAN :
       /\ j.work = "compile" /\ ok => j.got # 0
       /\ jobs' = jobs \ {j}
       /\ detail' =
            IF ~SameInstance(j) THEN detail
            ELSE [detail EXCEPT
                    !.busy = @ \ {j.work},
                    !.failed = IF ok THEN @ ELSE @ \cup {j.work},
                    !.set = IF ok /\ j.work = "compile" THEN SetOf(j.of, j.got) ELSE @]
  /\ UNCHANGED <<server, catalog, drawer, posts, selected, reply, visits, publishes,
                 others>>
-----------------------------------------------------------------------------
Next ==
  \/ OtherUser \/ ReadList \/ ListArrives \/ ListFails
  \/ ToggleDrawer \/ onClose \/ Fill \/ handlePublish \/ PublishAnswered
  \/ PublishArrives \/ PublishFails
  \/ OpenVersion \/ onBack \/ ReadVersion \/ VersionArrives \/ VersionFails
  \/ (\E w \in Work : Start(w)) \/ CompileAnswered \/ JobEnds

Spec == Init /\ [][Next]_vars
(* A request is answered or fails.                                         *)
FairSpec ==
  /\ Spec
  /\ WF_vars(ReadList \/ ListArrives \/ ListFails)
  /\ WF_vars(PublishArrives \/ PublishFails)
  /\ WF_vars(ReadVersion \/ VersionArrives \/ VersionFails)
  /\ WF_vars(JobEnds)
-----------------------------------------------------------------------------
(* The variables hold what their comments say; there is a detail exactly   *)
(* when a version is selected, and nothing is kept of one that is closed.  *)
TypeOK ==
  /\ ToSet(published) \subseteq Ids
  /\ sets \in [Ids -> 0..made]
  /\ list.status \in {"loading", "ready", "error"}
  /\ selected \in Ids \cup {None}
  /\ (selected = None) = (detail.status = "closed")
  /\ selected = None => detail = NoDetail
  /\ form.id \in Ids \cup {None}
  /\ detail.busy \subseteq Work /\ detail.failed \subseteq Work
  /\ \A p \in posts : p.id \in Ids
  /\ \A j \in jobs : j.of \in Ids

(* An id is published once, however often it is submitted, by whom, and    *)
(* whatever became of the answers.                                         *)
PublishedOnce == IsInjective(published)

(* The list never names a version the server does not have: what is        *)
(* prepended before the refresh was published.                             *)
ListedIsPublished == ToSet(list.items) \subseteq ToSet(published)

(* Nor one twice, though a refresh can bring a version before the answer   *)
(* of its own publication.                                                 *)
ListedOnce == IsInjective(list.items)

(* A detail that is ready shows the snapshot of the version selected.      *)
DetailIsSelected == DetailShown => detail.snapshot = selected

(* The Compiled Rule Set shown is one the server keeps, whoever compiled   *)
(* it and how often, and it is that of the version shown, or of one whose  *)
(* compilation was under way on this page when the version shown replaced  *)
(* it: answers of other loads never bring the set of another version.      *)
SetIsServers ==
  detail.set # None => /\ sets[detail.set.of] = detail.set.n
                       /\ detail.set.of \in {selected} \cup detail.overtaken

(* List or version load, or a publication is under way.                    *)
Waiting == "loading" \in {list.status, detail.status} \/ form.publishing
(* Whatever becomes of the requests, the page comes to rest again and      *)
(* again.                                                                  *)
ComesToRest == []<>~Waiting

(* Violated, as the README says:                                           *)
(* PolicyVersionCatalog.test.tsx says that a published Policy Version is   *)
(* kept in the list: not when two refreshes arrive in the other order.     *)
KeptInList == kept \subseteq ToSet(list.items)

(* Violated, as the README says:                                           *)
(* CONTEXT.md says that a Compiled Rule Set is pinned to exactly one       *)
(* Policy Version: the one shown with a version should be its own.         *)
SetOfVersionShown == SetShown => detail.set.of = selected
=============================================================================
