----------------------------- MODULE Generator ------------------------------
(***************************************************************************)
(* Runs of `python -m app.cli generate` over one output directory and one    *)
(* GitHub account (app/cli/generate.py, app/core/post_setup.py): templates   *)
(* are rendered, skills fetched, a Git repository is set up, a repository is *)
(* created on GitHub, configured and pushed to.  Any step may fail, a run    *)
(* may be killed, and another one follows with the same or other arguments.  *)
(***************************************************************************)
EXTENDS Integers, SequencesExt

CONSTANTS
    None,
    Args,              \* command lines
    File,              \* what the templates render
    Skill,             \* what the skills repository has
    MaxRuns            \* bound: runs over the directory

\* Somebody else's repository, and what may be in it.
Other == 0
Theirs == [f \in {} |-> None]

Disk == [File \cup Skill -> {None, "whole", "torn"}]
Repo == [by : 0 .. MaxRuns, topics : BOOLEAN, settings : BOOLEAN, protected : BOOLEAN,
         main : {None, Theirs} \cup Disk]

ASSUME GeneratorAssumption ==
    /\ MaxRuns \in Nat \ {0}
    /\ \A a \in Args : /\ a.files \in Seq(File) /\ a.url \in {None, "given"}
                       /\ {a.create, a.push, a.rollback} \subseteq BOOLEAN
    /\ None \notin {"0", "1", "raised", "killed", "own", "given", "whole", "torn"}
    /\ None \notin Disk /\ None \notin Repo /\ None # Theirs

VARIABLES
    args, runs, pc, rc,
    todo,              \* the files this run has yet to write
    mine,              \* this run has created a repository on GitHub
    disk,              \* what is in the output directory
    git,               \* its Git repository
    repos,             \* on GitHub: the one of that name, and that of --remote-url
    undeleted          \* a roll-back of this run did not reach GitHub

vars == <<args, runs, pc, rc, todo, mine, disk, git, repos, undeleted>>
local == <<disk, git>>

NewRepo(by) ==
    [by |-> by, topics |-> FALSE, settings |-> FALSE, protected |-> FALSE, main |-> None]

Init ==
    /\ args \in Args /\ runs = 1 /\ pc = "render" /\ rc = None /\ todo = args.files
    /\ mine = FALSE /\ undeleted = FALSE
    /\ disk = [f \in File \cup Skill |-> None]
    /\ git = [init |-> FALSE, hooks |-> FALSE, staged |-> None, commit |-> None,
              origin |-> None, branch |-> "master"]
    /\ \E own \in {None, NewRepo(Other)}, main \in {None, Theirs} :
          repos = [r \in {"own", "given"} |->
                      IF r = "own" THEN own ELSE [NewRepo(Other) EXCEPT !.main = main]]

Go(step) == pc' = step /\ UNCHANGED rc
End(code) == pc' = "ended" /\ rc' = code
-----------------------------------------------------------------------------
(* Local work.                                                              *)

AfterRender == IF args.skills THEN "skills" ELSE "init"

Rendered(f) == "whole"

Render ==
    /\ pc = "render" /\ todo # <<>>
    /\ disk' = [disk EXCEPT ![Head(todo)] = Rendered(Head(todo))]
    /\ todo' = Tail(todo)
    /\ Go(IF Tail(todo) = <<>> THEN AfterRender ELSE "render")
    /\ UNCHANGED <<args, runs, mine, git, repos, undeleted>>

\* Only a ValueError is caught.
RenderFails(code) ==
    /\ pc = "render"
    /\ End(code)
    /\ UNCHANGED <<args, runs, todo, mine, local, repos, undeleted>>

\* What cannot be downloaded is left out, even all of it.
FetchSkills(fetched) ==
    /\ pc = "skills"
    /\ disk' = [f \in DOMAIN disk |-> IF f \in fetched THEN "whole" ELSE disk[f]]
    /\ Go("init")
    /\ UNCHANGED <<args, runs, todo, mine, git, repos, undeleted>>

FetchFails ==
    /\ pc = "skills"
    /\ End("1")
    /\ UNCHANGED <<args, runs, todo, mine, local, repos, undeleted>>

GitInit ==
    /\ pc = "init"
    /\ git' = IF args.gitInit THEN [git EXCEPT !.init = TRUE] ELSE git
    /\ Go("hooks")
    /\ UNCHANGED <<args, runs, todo, mine, disk, repos, undeleted>>

\* How the GitHub phase goes on: to a step, or to its end with a code.
Continue(step) ==
    CASE step = "push" /\ ~args.push -> End("0")
      [] step = "push" /\ args.push /\ ~args.create /\ args.url = None -> End("1")
      [] step = "push" /\ args.push /\ (args.create \/ args.url # None) -> Go("add")
      [] OTHER -> Go(step)

AfterSetup == IF args.create THEN "create" ELSE "push"

InstallHooks ==
    /\ pc = "hooks" /\ (args.hooks => git.init)
    /\ git' = IF args.hooks THEN [git EXCEPT !.hooks = TRUE] ELSE git
    /\ Continue(AfterSetup)
    /\ UNCHANGED <<args, runs, todo, mine, disk, repos, undeleted>>

SetupFails ==
    /\ \/ pc = "init" /\ args.gitInit
       \/ pc = "hooks" /\ args.hooks
    /\ End("1")
    /\ UNCHANGED <<args, runs, todo, mine, local, repos, undeleted>>
-----------------------------------------------------------------------------
(* GitHub.                                                                  *)

\* A repository of that name will do.
AdoptExisting ==
    /\ pc = "create"
    /\ repos' = IF repos["own"] = None THEN [repos EXCEPT !["own"] = NewRepo(runs)] ELSE repos
    /\ mine' = TRUE
    /\ Go("topics")
    /\ UNCHANGED <<args, runs, todo, local, undeleted>>

CreateRepo ==
    /\ pc = "create" /\ repos["own"] = None
    /\ repos' = [repos EXCEPT !["own"] = NewRepo(runs)]
    /\ mine' = TRUE
    /\ Go("topics")
    /\ UNCHANGED <<args, runs, todo, local, undeleted>>

\* No token, the name is taken, or GitHub refuses; an error status is taken to mean
\* that nothing was created.
CreateRefused ==
    /\ pc = "create"
    /\ End("1")
    /\ UNCHANGED <<args, runs, todo, mine, local, repos, undeleted>>

\* A request whose answer is lost raises what is caught nowhere.
CreateLost(created) ==
    /\ pc = "create" /\ (created => repos["own"] = None)
    /\ repos' = IF created THEN [repos EXCEPT !["own"] = NewRepo(runs)] ELSE repos
    /\ End("raised")
    /\ UNCHANGED <<args, runs, todo, mine, local, undeleted>>

\* Not for the settings.
RollsBackPush == args.rollback /\ mine /\ pc \notin {"topics", "settings"}

MustRollBack == args.rollback /\ mine

\* A RuntimeError of a step; the repository is deleted, if GitHub can be told.
FailStep(deleted) ==
    /\ End("1")
    /\ deleted => MustRollBack
    /\ repos' = IF deleted THEN [repos EXCEPT !["own"] = None] ELSE repos
    /\ undeleted' = (MustRollBack /\ ~deleted)
    /\ UNCHANGED <<args, runs, todo, mine, local>>

SetTopics ==
    /\ pc = "topics"
    /\ repos' = [repos EXCEPT !["own"].topics = TRUE]
    /\ Go("settings")
    /\ UNCHANGED <<args, runs, todo, mine, local, undeleted>>

DisableWiki ==
    /\ pc = "settings"
    /\ repos' = [repos EXCEPT !["own"].settings = TRUE]
    /\ Continue(IF args.ci THEN "protect" ELSE "push")
    /\ UNCHANGED <<args, runs, todo, mine, local, undeleted>>

\* A branch that is not there yet cannot be protected; any HTTP error is a
\* warning.
SetBranchProtection(accepted) ==
    /\ pc = "protect"
    /\ accepted => repos["own"].main # None
    /\ repos' = [repos EXCEPT !["own"].protected = accepted]
    /\ Continue("push")
    /\ UNCHANGED <<args, runs, todo, mine, local, undeleted>>

ConfigureFails(deleted) == pc \in {"topics", "settings"} /\ FailStep(deleted)

\* The network fails: no HTTPError, so nothing catches it.
ConfigureRaises ==
    /\ pc \in {"topics", "settings", "protect"}
    /\ End("raised")
    /\ UNCHANGED <<args, runs, todo, mine, local, repos, undeleted>>
-----------------------------------------------------------------------------
(* The initial push.                                                        *)

Target == IF args.create THEN "own" ELSE args.url

GitAdd ==
    /\ pc = "add" /\ git.init
    /\ git' = [git EXCEPT !.staged = disk]
    /\ Go("commit")
    /\ UNCHANGED <<args, runs, todo, mine, disk, repos, undeleted>>

\* "nothing to commit" is as good as a commit, and so is any other failure.
CommitOrGoOn ==
    /\ pc = "commit"
    /\ git' \in {git, [git EXCEPT !.commit = git.staged]} /\ git'.commit # None
    /\ Go("remote")
    /\ UNCHANGED <<args, runs, todo, mine, disk, repos, undeleted>>

\* With nothing new there is nothing to commit.
GitCommit ==
    /\ pc = "commit" /\ git.staged # git.commit
    /\ git' = [git EXCEPT !.commit = git.staged]
    /\ Go("remote")
    /\ UNCHANGED <<args, runs, todo, mine, disk, repos, undeleted>>

AddRemote ==
    /\ pc = "remote" /\ git.origin = None
    /\ git' = [git EXCEPT !.origin = Target]
    /\ Go("branch")
    /\ UNCHANGED <<args, runs, todo, mine, disk, repos, undeleted>>

RenameBranch ==
    /\ pc = "branch"
    /\ git' = [git EXCEPT !.branch = "main"]
    /\ Go("push")
    /\ UNCHANGED <<args, runs, todo, mine, disk, repos, undeleted>>

MayPush == repos[git.origin] # None /\ repos[git.origin].main = None
Pushed == [repos EXCEPT ![git.origin].main = git.commit]

Push ==
    /\ pc = "push" /\ MayPush
    /\ repos' = Pushed
    /\ End("0")
    /\ UNCHANGED <<args, runs, todo, mine, local, undeleted>>

StepFails(deleted) == pc \in {"add", "commit", "remote", "branch", "push"} /\ FailStep(deleted)

\* The push arrives and its answer does not, nor does a roll-back: the commit
\* stays there.
PushLost ==
    /\ pc = "push" /\ MayPush
    /\ repos' = Pushed /\ undeleted' = MustRollBack
    /\ End("1")
    /\ UNCHANGED <<args, runs, todo, mine, local>>

\* No git: run_initial_push, unlike run_git_init, does not catch that.
GitMissing ==
    /\ pc = "add"
    /\ End("raised")
    /\ UNCHANGED <<args, runs, todo, mine, local, repos, undeleted>>
-----------------------------------------------------------------------------
\* Killed at any point, maybe with a file half written.
Kill(torn) ==
    /\ pc # "ended"
    /\ torn \subseteq (CASE pc = "render" -> {Head(todo)}
                         [] pc = "skills" -> Skill
                         [] OTHER -> {})
    /\ disk' = [f \in DOMAIN disk |-> IF f \in torn THEN "torn" ELSE disk[f]]
    /\ End("killed")
    /\ UNCHANGED <<args, runs, todo, mine, git, repos, undeleted>>

RunAgain(a) ==
    /\ pc = "ended" /\ runs < MaxRuns
    /\ runs' = runs + 1 /\ args' = a /\ pc' = "render" /\ rc' = None /\ todo' = a.files
    /\ mine' = FALSE /\ undeleted' = FALSE
    /\ UNCHANGED <<local, repos>>

Next ==
    \/ Render \/ FetchFails \/ GitInit \/ InstallHooks \/ SetupFails
    \/ \E code \in {"1", "raised"} : RenderFails(code)
    \/ \E fetched \in SUBSET Skill : FetchSkills(fetched)
    \/ CreateRepo \/ CreateRefused \/ SetTopics \/ DisableWiki \/ ConfigureRaises
    \/ \E b \in BOOLEAN : \/ CreateLost(b) \/ SetBranchProtection(b)
                          \/ ConfigureFails(b) \/ StepFails(b)
    \/ GitAdd \/ GitCommit \/ AddRemote \/ RenameBranch \/ Push \/ PushLost \/ GitMissing
    \/ \E torn \in {{}} \cup {{f} : f \in File \cup Skill} : Kill(torn)
    \/ \E a \in Args : RunAgain(a)

Spec == Init /\ [][Next]_vars
-----------------------------------------------------------------------------
(* Properties.                                                              *)

\* A run that reports success has all its templates on disk in whole, whatever
\* an earlier run had left there; and when it was to push, they are all on the
\* main branch of the repository it was to push to.
SuccessIsWhole ==
    rc = "0" =>
        /\ \A f \in ToSet(args.files) : disk[f] = "whole"
        /\ args.push => /\ repos[Target] # None /\ repos[Target].main \notin {None, Theirs}
                        /\ \A f \in ToSet(args.files) : repos[Target].main[f] = "whole"

\* A run that reports its failure (an error that the steps of _run_github_phase catch,
\* "1"), and was not told otherwise, leaves no repository of its own on GitHub, unless
\* GitHub could not be told to delete it.  Of a run that ends by an exception nobody
\* catches ("raised": the network fails, git is missing) or is killed it says nothing:
\* those roll nothing back.
FailureIsRolledBack ==
    rc = "1" /\ args.rollback /\ ~undeleted =>
        repos["own"] = None \/ repos["own"].by # runs

\* On GitHub a repository is created only when the templates are written and Git
\* is set up as asked, so that nothing local can fail any more; nothing is deleted
\* but what this very run has created; and no commit goes to a repository that an
\* earlier run over this directory had set up.
RemoteChangesAreDue ==
    [][\A r \in DOMAIN repos :
          /\ repos[r] = None /\ repos'[r] # None =>
                /\ \A f \in ToSet(args.files) : disk[f] = "whole"
                /\ args.gitInit => git.init
                /\ args.hooks => git.hooks
          /\ repos[r] # None /\ repos'[r] = None => repos[r].by = runs
          /\ repos[r] # None /\ repos'[r] # None /\ repos[r].main # repos'[r].main
                => r = Target]_repos
=============================================================================
