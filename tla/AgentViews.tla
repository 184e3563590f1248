------------------------------ MODULE AgentViews ------------------------------
(***************************************************************************)
(* The views of the agent that show jobs (views/agent.py): the policy      *)
(* gives each user all the jobs, their own or none, slurmrestd is queried  *)
(* for all of them, and one cache serves all the users.                    *)
(*                                                                         *)
(* An answer of slurmrestd, whole or for one job, is the state it told of  *)
(* each job: the views take the jobs they show from it.                    *)
(***************************************************************************)
EXTENDS Integers

CONSTANTS
  Requests,  \* request threads of the agent
  Allowed,   \* the actions the policy gives to each user
  Owner,     \* the user of each job, as Slurm writes it
  Folded,    \* names in lower case
  MaxAsks    \* bound: requests that ask for something

Users == DOMAIN Allowed
Jobs == DOMAIN Owner

ASSUME ViewsAssumption ==
  /\ Users # {}
  /\ Users \cup {Owner[j] : j \in Jobs} \subseteq DOMAIN Folded
  /\ MaxAsks \in Nat

VARIABLES
  queue,    \* the state of each job
  told,     \* history: the states of the jobs there have been
  cached,   \* the answer in the cache for each key, if any
  request,  \* the requests
  asks      \* requests so far

viewsVars == <<queue, told, cached, request, asks>>

(* The views: the actions that give all the jobs and those of the user,    *)
(* the key of the answer in the cache, and what is shown of it.  The jobs   *)
(* of a node are chosen from the answer of "jobs" as well.                 *)
Views ==
  {[name |-> "jobs", all |-> "jobs-view", own |-> "jobs-view-own", key |-> "jobs",
    states |-> {"current"}],
   [name |-> "past", all |-> "jobs-view-past", own |-> "jobs-view-past-own",
    key |-> "past", states |-> {"ended"}],
   [name |-> "stats", all |-> "stats-view", own |-> "stats-view", key |-> "jobs",
    states |-> {"current", "ended"}]}
  \cup {[name |-> "job", all |-> "jobs-view", own |-> "jobs-view-own", key |-> j,
         states |-> {"current", "ended"}] : j \in Jobs}

About(view) == IF view.name = "job" THEN {view.key} ELSE Jobs
Shown(view, answer) == {j \in About(view) : answer[j] \in view.states}

Unknown == [j \in Jobs |-> "none"]
Reply(status, jobs) == [status |-> status, jobs |-> jobs]
Unasked == [at |-> "idle", user |-> CHOOSE u \in Users : TRUE,
            view |-> CHOOSE v \in Views : TRUE, own |-> FALSE,
            answer |-> Unknown, reply |-> Reply("none", {})]

ViewsInit ==
  /\ queue \in [Jobs -> {"none", "current"}] /\ told = {queue}
  /\ cached = [k \in {"jobs", "past"} \cup Jobs |-> {}]
  /\ request = [r \in Requests |-> Unasked]
  /\ asks = 0

-----------------------------------------------------------------------------
Progress(j) ==
  /\ queue[j] # "ended"
  /\ queue' = [queue EXCEPT ![j] = IF @ = "none" THEN "current" ELSE "ended"]
  /\ told' = told \cup {queue'}
  /\ UNCHANGED <<cached, request, asks>>

Expire(k) ==
  /\ cached[k] # {}
  /\ cached' = [cached EXCEPT ![k] = {}]
  /\ UNCHANGED <<queue, told, request, asks>>

Turn(r, state) == request' = [request EXCEPT ![r] = state]
Done(r, reply) == Turn(r, [request[r] EXCEPT !.at = "done", !.answer = Unknown, !.reply = reply])

(* What the policy gives.                                                  *)
Ask(r, user, view) ==
  /\ request[r].at = "idle"
  /\ asks < MaxAsks /\ asks' = asks + 1
  /\ LET all == view.all \in Allowed[user]
         asked == [Unasked EXCEPT !.user = user, !.view = view, !.own = ~all]
     IN  IF all \/ view.own \in Allowed[user]
           THEN Turn(r, [asked EXCEPT !.at = "get"])
           ELSE Turn(r, [asked EXCEPT !.at = "done", !.reply = Reply("forbidden", {})])
  /\ UNCHANGED <<queue, told, cached>>

Cached(r) == cached[request[r].view.key]

LookUp(r) ==
  /\ request[r].at = "get"
  /\ \/ Cached(r) = {} /\ Turn(r, [request[r] EXCEPT !.at = "query"])
     \/ \E answer \in Cached(r) :
          Turn(r, [request[r] EXCEPT !.at = "show", !.answer = answer])
  /\ UNCHANGED <<queue, told, cached, asks>>

(* slurmrestd answers, or does not know the job.                           *)
JobFound(r) == request[r].view.name = "job" => queue[request[r].view.key] # "none"

QueryJobs(r) ==
  /\ request[r].at = "query"
  /\ IF JobFound(r) THEN Turn(r, [request[r] EXCEPT !.at = "put", !.answer = queue])
     ELSE Done(r, Reply("not found", {}))
  /\ UNCHANGED <<queue, told, cached, asks>>

(* handle_slurmrestd_errors(): slurmrestd or the cache fails, the latter   *)
(* also when it counts the hit or the miss, with the answer at hand.       *)
ViewFails(r) ==
  /\ request[r].at \in {"get", "query", "put", "show"}
  /\ Done(r, Reply("failed", {}))
  /\ UNCHANGED <<queue, told, cached, asks>>

Theirs(user) == {j \in Jobs : Folded[Owner[j]] = Folded[user]}

(* The whole answer is cached.  The mutant caches what the user is shown.  *)
Kept_Theirs(r) ==
  IF request[r].own
    THEN [j \in Jobs |-> IF j \in Theirs(request[r].user) THEN request[r].answer[j] ELSE "none"]
    ELSE request[r].answer

Kept(r) == request[r].answer

Keep(r) ==
  /\ request[r].at = "put"
  /\ cached' = [cached EXCEPT ![request[r].view.key] = {Kept(r)}]
  /\ Turn(r, [request[r] EXCEPT !.at = "show"])
  /\ UNCHANGED <<queue, told, asks>>

(* The jobs of others are left out of a list, and not found on their own.  *)
Show(r) ==
  /\ request[r].at = "show"
  /\ LET view == request[r].view
         jobs == Shown(view, request[r].answer)
         theirs == IF request[r].own THEN jobs \cap Theirs(request[r].user) ELSE jobs
     IN  Done(r, IF view.name = "job" /\ theirs = {} THEN Reply("not found", {})
                 ELSE Reply("ok", theirs))
  /\ UNCHANGED <<queue, told, cached, asks>>

Answered(r) ==
  /\ request[r].at = "done"
  /\ Turn(r, Unasked)
  /\ UNCHANGED <<queue, told, cached, asks>>

ViewsNext ==
  \/ \E j \in Jobs : Progress(j)
  \/ \E k \in DOMAIN cached : Expire(k)
  \/ \E r \in Requests :
       \/ \E user \in Users, view \in Views : Ask(r, user, view)
       \/ LookUp(r) \/ QueryJobs(r) \/ ViewFails(r) \/ Keep(r) \/ Show(r) \/ Answered(r)

ViewsSpec == ViewsInit /\ [][ViewsNext]_viewsVars

-----------------------------------------------------------------------------
(* Each answer shows exactly the jobs its user may see of one state that   *)
(* Slurm has told of its jobs, whoever filled the cache, and for whom: it  *)
(* neither shows the jobs of others nor misses the user's own.             *)
MayBeSeen(user, view) ==
  IF view.all \in Allowed[user] THEN Jobs
  ELSE IF view.own \in Allowed[user] THEN Theirs(user) ELSE {}

ExactlyTheirJobs ==
  \A r \in Requests : LET view == request[r].view  reply == request[r].reply IN
    reply.status = "ok" =>
      \E states \in told :
        reply.jobs = Shown(view, states) \cap MayBeSeen(request[r].user, view)
=============================================================================
