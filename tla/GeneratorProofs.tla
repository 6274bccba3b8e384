--------------------------- MODULE GeneratorProofs --------------------------
(***************************************************************************)
(* Proofs about module Generator, for every set of command lines, files and *)
(* skills, and any number of runs.                                          *)
(***************************************************************************)
EXTENDS Generator, TLAPS

Local == {"render", "skills", "init", "hooks", "create"}
Configuring == {"topics", "settings", "protect"}
Pushing == {"add", "commit", "remote", "branch", "push"}

GitRepo == [init : BOOLEAN, hooks : BOOLEAN, staged : {None} \cup Disk,
            commit : {None} \cup Disk, origin : {None, "own", "given"},
            branch : {"master", "main"}]

Typed ==
    /\ args \in Args /\ runs \in 1 .. MaxRuns /\ todo \in Seq(File)
    /\ pc \in Local \cup Configuring \cup Pushing \cup {"ended"}
    /\ rc \in {None, "0", "1", "raised", "killed"}
    /\ mine \in BOOLEAN /\ undeleted \in BOOLEAN
    /\ disk \in Disk /\ git \in GitRepo
    /\ repos \in [{"own", "given"} -> {None} \cup Repo]
    /\ pc = "ended" <=> rc # None

\* The files this run has left behind; one, at least, before it goes on.
Whole == \A f \in ToSet(args.files) : disk[f] = "whole"
RenderOK ==
    /\ pc = "render" => \A f \in ToSet(args.files) \ ToSet(todo) : disk[f] = "whole"
    /\ todo # <<>> => args.files # <<>>
    /\ pc \notin {"render", "ended"} \/ rc = "0" => Whole /\ args.files # <<>>

\* Git is set up when the phase is over, and stays so.
SetupOK ==
    /\ pc \in {"hooks", "create"} => (args.gitInit => git.init)
    /\ pc = "create" => (args.hooks => git.hooks)

\* The repository on GitHub is that of this run exactly when the run knows it.
OwnOK ==
    /\ repos["own"] # None => repos["own"].by <= runs
    /\ pc # "ended" => (mine <=> repos["own"] # None /\ repos["own"].by = runs)
    /\ pc \in Local => ~mine
    /\ pc \in Configuring => mine
    /\ mine \/ pc = "create" => args.create
    /\ FailureIsRolledBack

\* What is staged, committed and pushed is the directory as it was rendered,
\* and it goes where it was meant to.
PushOK ==
    /\ pc \in Pushing => args.push /\ (args.create \/ args.url # None)
    /\ pc = "commit" => git.staged = disk
    /\ pc \in {"remote", "branch", "push"} => git.commit = disk
    /\ pc \in {"branch", "push"} => git.origin = Target
    /\ rc = "0" /\ args.push => repos[Target] # None /\ repos[Target].main = disk

Inv == Typed /\ RenderOK /\ SetupOK /\ OwnOK /\ PushOK

LEMMA ArgsType ==
  ASSUME Typed
  PROVE  /\ args.files \in Seq(File) /\ args.url \in {None, "given"}
         /\ args.create \in BOOLEAN /\ args.push \in BOOLEAN /\ args.rollback \in BOOLEAN
         /\ MaxRuns \in Nat /\ None \notin Disk /\ None \notin Repo /\ None # Theirs
         /\ None \notin {"0", "1", "raised", "killed", "own", "given"}
BY GeneratorAssumption DEF Typed

\* What the end of the GitHub phase comes to.
LEMMA ContinueCases ==
  ASSUME Typed, NEW step \in {"create", "protect", "push"}, Continue(step)
  PROVE  \/ step # "push" /\ Go(step)
         \/ step = "push" /\ ~args.push /\ End("0")
         \/ step = "push" /\ ~args.create /\ End("1")
         \/ step = "push" /\ args.push /\ (args.create \/ args.url # None) /\ Go("add")
<1>1. CASE step # "push"
  BY <1>1 DEF Continue
<1>2. CASE step = "push" /\ ~args.push
  BY <1>2 DEF Continue
<1>3. CASE step = "push" /\ args.push /\ ~args.create /\ args.url = None
  BY <1>3 DEF Continue
<1>4. CASE step = "push" /\ args.push /\ (args.create \/ args.url # None)
  BY <1>4 DEF Continue
<1> QED
  BY <1>1, <1>2, <1>3, <1>4

LEMMA InitInv == Init => Inv
<1> SUFFICES ASSUME Init PROVE Inv
  OBVIOUS
<1>1. args.files \in Seq(File) /\ MaxRuns \in Nat \ {0} /\ None # "0" /\ None # "1"
  BY GeneratorAssumption DEF Init
<1>2. NewRepo(Other) \in Repo
  BY <1>1 DEF NewRepo, Other, Repo
<1>3. PICK own \in {None, NewRepo(Other)}, main \in {None, Theirs} :
        repos = [r \in {"own", "given"} |->
                    IF r = "own" THEN own ELSE [NewRepo(Other) EXCEPT !.main = main]]
  BY DEF Init
<1>4. [NewRepo(Other) EXCEPT !.main = main] \in Repo
  BY <1>2, <1>3 DEF Repo
<1>5. repos \in [{"own", "given"} -> {None} \cup Repo] /\ repos["own"] = own
  BY <1>2, <1>3, <1>4
<1>6. repos["own"] # None => repos["own"].by = 0
  BY <1>3, <1>5 DEF NewRepo, Other
<1>7. disk \in Disk /\ git \in GitRepo
  BY DEF Init, Disk, GitRepo
<1>8. Typed
  <2>1. args \in Args /\ runs \in 1 .. MaxRuns /\ todo \in Seq(File)
    BY <1>1 DEF Init
  <2>2. pc = "render" /\ rc = None /\ mine = FALSE /\ undeleted = FALSE
    BY DEF Init
  <2> QED
    BY <1>5, <1>7, <2>1, <2>2 DEF Typed, Local
<1>9. RenderOK /\ SetupOK /\ PushOK
  BY <1>1 DEF Init, RenderOK, SetupOK, PushOK, Pushing
<1>10. OwnOK
  BY <1>1, <1>6 DEF Init, OwnOK, Local, Configuring, FailureIsRolledBack
<1> QED
  BY <1>8, <1>9, <1>10 DEF Inv

\* A run that just ends, with an exit code that promises nothing but, at most,
\* that no repository was left behind.
LEMMA EndStep ==
  ASSUME Inv, NEW code \in {"1", "raised", "killed"}, End(code), disk' \in Disk,
         UNCHANGED <<args, runs, todo, mine, git, repos, undeleted>>,
         pc # "ended", code = "1" => ~mine
  PROVE  Inv'
<1>1. None # code /\ code # "0"
  BY GeneratorAssumption
<1>2. Typed'
  BY <1>1 DEF Inv, Typed, End, Local
<1>3. RenderOK' /\ SetupOK' /\ PushOK'
  BY <1>1 DEF Inv, RenderOK, SetupOK, PushOK, Pushing, End
<1>4. FailureIsRolledBack'
  BY DEF Inv, OwnOK, FailureIsRolledBack, End
<1>5. OwnOK'
  BY <1>4 DEF Inv, OwnOK, End, Local, Configuring
<1> QED
  BY <1>2, <1>3, <1>5 DEF Inv

LEMMA HeadTail ==
  ASSUME NEW S, NEW s \in Seq(S), s # <<>>
  PROVE  /\ Head(s) \in S /\ Tail(s) \in Seq(S)
         /\ ToSet(s) \subseteq {Head(s)} \cup ToSet(Tail(s))
         /\ ToSet(s) \subseteq S
<1>1. Len(s) \in Nat \ {0} /\ Tail(s) \in Seq(S) /\ Head(s) = s[1]
  OBVIOUS
<1>2. ASSUME NEW i \in DOMAIN s, i # 1 PROVE i - 1 \in DOMAIN Tail(s) /\ Tail(s)[i - 1] = s[i]
  BY <1>1, <1>2
<1>3. \A i \in DOMAIN s : s[i] \in {Head(s)} \cup ToSet(Tail(s))
  BY <1>1, <1>2 DEF ToSet
<1> QED
  BY <1>1, <1>3 DEF ToSet

LEMMA RenderStep == Inv /\ Render => Inv'
<1> SUFFICES ASSUME Inv, Render PROVE Inv'
  OBVIOUS
<1> DEFINE f == Head(todo)
<1>1. /\ todo \in Seq(File) /\ todo # <<>> /\ pc = "render" /\ rc = None /\ ~mine
      /\ None # "0" /\ None # "1"
  BY ArgsType DEF Inv, Typed, OwnOK, Local, Render
<1>2. /\ f \in File /\ Tail(todo) \in Seq(File)
      /\ ToSet(todo) \subseteq {f} \cup ToSet(Tail(todo))
  BY <1>1, HeadTail
<1>3. disk' = [disk EXCEPT ![f] = "whole"] /\ disk \in Disk
  BY DEF Render, Rendered, Inv, Typed
<1>4. disk' \in Disk /\ \A g \in File \cup Skill : disk'[g] = IF g = f THEN "whole" ELSE disk[g]
  BY <1>2, <1>3 DEF Disk
<1>5. /\ pc' \in {"render", "skills", "init"} /\ rc' = None /\ todo' = Tail(todo)
      /\ pc' # "render" => Tail(todo) = <<>>
      /\ UNCHANGED <<args, runs, mine, git, repos, undeleted>>
  BY <1>1 DEF Render, Go, AfterRender
<1>6. ToSet(args.files) \subseteq File \cup Skill
  BY ArgsType, HeadTail DEF Inv, RenderOK, ToSet
<1>7. \A g \in ToSet(args.files) \ ToSet(Tail(todo)) : disk'[g] = "whole"
  BY <1>1, <1>2, <1>4, <1>6 DEF Inv, RenderOK
<1>8. Tail(todo) = <<>> => ToSet(Tail(todo)) = {}
  BY DEF ToSet
<1>9. Typed'
  BY <1>1, <1>2, <1>4, <1>5 DEF Inv, Typed, Local
<1>10. RenderOK'
  BY <1>1, <1>5, <1>7, <1>8 DEF Inv, RenderOK, Whole
<1>11. SetupOK' /\ PushOK'
  BY <1>1, <1>5 DEF SetupOK, PushOK, Pushing
<1>12. OwnOK'
  BY <1>1, <1>5 DEF Inv, OwnOK, Local, Configuring, FailureIsRolledBack
<1> QED
  BY <1>9, <1>10, <1>11, <1>12 DEF Inv

LEMMA FetchStep ==
  ASSUME Inv, NEW fetched \in SUBSET Skill, FetchSkills(fetched)
  PROVE  Inv'
<1>1. pc = "skills" /\ rc = None /\ ~mine /\ None # "0" /\ None # "1"
  BY ArgsType DEF Inv, Typed, OwnOK, Local, FetchSkills
<1>2. /\ pc' = "init" /\ rc' = None
      /\ UNCHANGED <<args, runs, todo, mine, git, repos, undeleted>>
  BY <1>1 DEF FetchSkills, Go
<1>3. /\ disk' \in Disk
      /\ \A f \in File \cup Skill : disk[f] = "whole" => disk'[f] = "whole"
  BY DEF FetchSkills, Inv, Typed, Disk
<1>4. ToSet(args.files) \subseteq File \cup Skill
  BY ArgsType, HeadTail DEF Inv, ToSet
<1>5. Typed'
  BY <1>1, <1>2, <1>3 DEF Inv, Typed, Local
<1>6. RenderOK'
  BY <1>1, <1>2, <1>3, <1>4 DEF Inv, RenderOK, Whole
<1>7. SetupOK' /\ PushOK'
  BY <1>1, <1>2 DEF SetupOK, PushOK, Pushing
<1>8. OwnOK'
  BY <1>1, <1>2 DEF Inv, OwnOK, Local, Configuring, FailureIsRolledBack
<1> QED
  BY <1>5, <1>6, <1>7, <1>8 DEF Inv

LEMMA GitInitStep == Inv /\ GitInit => Inv'
<1> SUFFICES ASSUME Inv, GitInit PROVE Inv'
  OBVIOUS
<1>1. pc = "init" /\ rc = None /\ ~mine /\ None # "0" /\ None # "1"
  BY ArgsType DEF Inv, Typed, OwnOK, Local, GitInit
<1>2. /\ pc' = "hooks" /\ rc' = None
      /\ UNCHANGED <<args, runs, todo, mine, disk, repos, undeleted>>
  BY <1>1 DEF GitInit, Go
<1>3. git' \in GitRepo /\ (args.gitInit => git'.init)
  BY DEF GitInit, Inv, Typed, GitRepo
<1>4. Typed'
  BY <1>1, <1>2, <1>3 DEF Inv, Typed, Local
<1>5. RenderOK' /\ SetupOK' /\ PushOK'
  BY <1>1, <1>2, <1>3 DEF Inv, RenderOK, Whole, SetupOK, PushOK, Pushing
<1>6. OwnOK'
  BY <1>1, <1>2 DEF Inv, OwnOK, Local, Configuring, FailureIsRolledBack
<1> QED
  BY <1>4, <1>5, <1>6 DEF Inv

\* What is left on GitHub, as far as owning it goes.
SameOwner == /\ repos'["own"] # None <=> repos["own"] # None
             /\ repos["own"] # None => repos'["own"].by = repos["own"].by

\* A step that goes on, or to the end, by Continue.
LEMMA ContinueStep ==
  ASSUME Inv, pc \notin {"ended", "render"}, NEW step \in {"create", "protect", "push"},
         Continue(step), git' \in GitRepo, repos' \in [{"own", "given"} -> {None} \cup Repo],
         UNCHANGED <<args, runs, todo, mine, disk, undeleted>>, SameOwner,
         step = "create" => /\ pc = "hooks" /\ args.create
                            /\ args.gitInit => git'.init
                            /\ args.hooks => git'.hooks,
         step = "protect" => mine
  PROVE  Inv'
<1>1. /\ Typed /\ RenderOK /\ OwnOK /\ rc = None /\ None # "0" /\ None # "1" /\ None # "raised"
      /\ Whole /\ args.files # <<>>
  BY ArgsType DEF Inv, Typed, RenderOK
<1>2. \/ pc' = step /\ step # "push" /\ rc' = None
      \/ pc' = "ended" /\ rc' = "0" /\ ~args.push
      \/ pc' = "ended" /\ rc' = "1" /\ ~args.create
      \/ pc' = "add" /\ rc' = None /\ args.push /\ (args.create \/ args.url # None)
  BY <1>1, ContinueCases DEF Go, End
<1>3. Typed'
  BY <1>1, <1>2 DEF Typed, Local, Configuring, Pushing
<1>4. RenderOK' /\ SetupOK'
  BY <1>1, <1>2 DEF RenderOK, Whole, SetupOK
<1>5. PushOK'
  BY <1>1, <1>2 DEF PushOK, Pushing
<1>6. FailureIsRolledBack'
  BY <1>1, <1>2 DEF OwnOK, FailureIsRolledBack, SameOwner
<1>7. OwnOK'
  <2>1. repos'["own"] # None => repos'["own"].by <= runs'
    BY <1>1 DEF OwnOK, SameOwner
  <2>2. mine' <=> repos'["own"] # None /\ repos'["own"].by = runs'
    BY <1>1 DEF OwnOK, SameOwner
  <2>3. pc' = "create" => ~mine' /\ args'.create
    BY <1>1, <1>2 DEF OwnOK, Local
  <2>4. pc' \notin Local \ {"create"} /\ (pc' \in Configuring => mine')
    BY <1>2 DEF Local, Configuring
  <2> QED
    BY <1>1, <1>6, <2>1, <2>2, <2>3, <2>4 DEF OwnOK
<1> QED
  BY <1>3, <1>4, <1>5, <1>7 DEF Inv

LEMMA HooksStep == Inv /\ InstallHooks => Inv'
<1> SUFFICES ASSUME Inv, InstallHooks PROVE Inv'
  OBVIOUS
<1>1. AfterSetup \in {"create", "push"} /\ (AfterSetup = "create" => args.create)
  BY DEF AfterSetup
<1>2. git' \in GitRepo /\ (args.hooks => git'.hooks) /\ (git.init => git'.init)
  BY DEF InstallHooks, Inv, Typed, GitRepo
<1>3. pc = "hooks" /\ Continue(AfterSetup)
      /\ UNCHANGED <<args, runs, todo, mine, disk, repos, undeleted>>
  BY DEF InstallHooks
<1>4. repos' \in [{"own", "given"} -> {None} \cup Repo] /\ SameOwner
  BY <1>3 DEF Inv, Typed, SameOwner
<1>5. args.gitInit => git'.init
  BY <1>2, <1>3 DEF Inv, SetupOK
<1> HIDE DEF AfterSetup
<1> QED
  BY <1>1, <1>2, <1>3, <1>4, <1>5, ContinueStep

\* A repository of this run, which the run knows of.
LEMMA CreateStep == Inv /\ CreateRepo => Inv'
<1> SUFFICES ASSUME Inv, CreateRepo PROVE Inv'
  OBVIOUS
<1>1. /\ pc = "create" /\ rc = None /\ args.create /\ None # "0" /\ None # "1"
      /\ runs \in 1 .. MaxRuns /\ MaxRuns \in Nat
      /\ repos \in [{"own", "given"} -> {None} \cup Repo]
  BY ArgsType DEF Inv, Typed, OwnOK, CreateRepo
<1>2. /\ pc' = "topics" /\ rc' = None /\ mine' = TRUE
      /\ repos' = [repos EXCEPT !["own"] = NewRepo(runs)]
      /\ UNCHANGED <<args, runs, todo, disk, git, undeleted>>
  BY <1>1 DEF CreateRepo, Go, local
<1>3. NewRepo(runs) \in Repo /\ NewRepo(runs).by = runs
  BY <1>1 DEF NewRepo, Repo
<1>4. /\ repos' \in [{"own", "given"} -> {None} \cup Repo]
      /\ repos'["own"] # None /\ repos'["own"].by = runs
  BY <1>1, <1>2, <1>3, ArgsType DEF Inv
<1>5. Typed'
  BY <1>1, <1>2, <1>4 DEF Inv, Typed, Configuring
<1>6. RenderOK' /\ SetupOK' /\ PushOK'
  BY <1>1, <1>2 DEF Inv, RenderOK, Whole, SetupOK, PushOK, Pushing
<1>7. OwnOK'
  BY <1>1, <1>2, <1>4 DEF OwnOK, Local, Configuring, FailureIsRolledBack
<1> QED
  BY <1>5, <1>6, <1>7 DEF Inv

LEMMA CreateLostStep == ASSUME Inv, NEW b \in BOOLEAN, CreateLost(b) PROVE Inv'
<1>1. /\ pc = "create" /\ rc = None /\ ~mine /\ None # "raised"
      /\ runs \in 1 .. MaxRuns /\ MaxRuns \in Nat
      /\ repos \in [{"own", "given"} -> {None} \cup Repo]
  BY ArgsType DEF Inv, Typed, OwnOK, Local, CreateLost
<1>2. /\ pc' = "ended" /\ rc' = "raised"
      /\ UNCHANGED <<args, runs, todo, mine, disk, git, undeleted>>
      /\ repos' = repos \/ repos' = [repos EXCEPT !["own"] = NewRepo(runs)]
  BY DEF CreateLost, End, local
<1>3. NewRepo(runs) \in Repo /\ NewRepo(runs).by = runs
  BY <1>1 DEF NewRepo, Repo
<1>4. /\ repos' \in [{"own", "given"} -> {None} \cup Repo]
      /\ repos'["own"] # None => repos'["own"].by <= runs
  BY <1>1, <1>2, <1>3 DEF Inv, OwnOK
<1>5. Typed'
  BY <1>1, <1>2, <1>4 DEF Inv, Typed
<1>6. RenderOK' /\ SetupOK' /\ PushOK'
  BY <1>1, <1>2 DEF Inv, RenderOK, SetupOK, PushOK, Pushing
<1>7. OwnOK'
  BY <1>1, <1>2, <1>4 DEF OwnOK, Local, Configuring, FailureIsRolledBack
<1> QED
  BY <1>5, <1>6, <1>7 DEF Inv

\* A roll-back takes nothing away but the repository of this run.
LEMMA FailStepStep ==
  ASSUME Inv, pc # "ended", NEW deleted \in BOOLEAN, FailStep(deleted)
  PROVE  Inv'
<1>1. /\ pc' = "ended" /\ rc' = "1" /\ None # "1" /\ UNCHANGED <<args, runs, todo, mine, disk, git>>
      /\ repos \in [{"own", "given"} -> {None} \cup Repo]
      /\ mine \in BOOLEAN /\ args.rollback \in BOOLEAN
  BY ArgsType DEF Inv, Typed, FailStep, End, local
<1>2. repos' = IF deleted THEN [repos EXCEPT !["own"] = None] ELSE repos
  BY DEF FailStep
<1>3. undeleted' = (args.rollback /\ mine /\ ~deleted) /\ undeleted' \in BOOLEAN
  BY <1>1 DEF FailStep, MustRollBack
<1>4. /\ repos' \in [{"own", "given"} -> {None} \cup Repo]
      /\ repos'["own"] # None => ~deleted /\ repos'["own"] = repos["own"]
  BY <1>1, <1>2
<1>5. Typed'
  BY <1>1, <1>3, <1>4 DEF Inv, Typed
<1>6. RenderOK' /\ SetupOK' /\ PushOK'
  BY <1>1 DEF Inv, RenderOK, SetupOK, PushOK, Pushing
<1>7. FailureIsRolledBack'
  BY <1>1, <1>3, <1>4 DEF Inv, OwnOK, FailureIsRolledBack
<1>8. OwnOK'
  BY <1>1, <1>4, <1>7 DEF Inv, OwnOK, Local, Configuring
<1> QED
  BY <1>5, <1>6, <1>8 DEF Inv

LEMMA TopicsStep == Inv /\ SetTopics => Inv'
<1> SUFFICES ASSUME Inv, SetTopics PROVE Inv'
  OBVIOUS
<1>1. /\ pc = "topics" /\ mine /\ rc = None /\ None # "0" /\ None # "1"
      /\ repos \in [{"own", "given"} -> {None} \cup Repo]
  BY ArgsType DEF Inv, Typed, OwnOK, Configuring, SetTopics
<1>2. /\ pc' = "settings" /\ rc' = None
      /\ UNCHANGED <<args, runs, todo, mine, disk, git, undeleted>>
  BY <1>1 DEF SetTopics, Go, local
<1>3. repos["own"] \in Repo /\ None \notin Repo
  BY <1>1, ArgsType DEF Inv, OwnOK
<1>4. /\ [repos["own"] EXCEPT !.topics = TRUE] \in Repo
      /\ [repos["own"] EXCEPT !.topics = TRUE].by = repos["own"].by
  BY <1>3 DEF Repo
<1>5. repos' = [repos EXCEPT !["own"] = [repos["own"] EXCEPT !.topics = TRUE]]
  BY DEF SetTopics
<1>6. repos' \in [{"own", "given"} -> {None} \cup Repo] /\ SameOwner
  BY <1>1, <1>3, <1>4, <1>5 DEF SameOwner
<1>7. Typed'
  BY <1>1, <1>2, <1>6 DEF Inv, Typed, Configuring
<1>8. RenderOK' /\ SetupOK' /\ PushOK'
  BY <1>1, <1>2 DEF Inv, RenderOK, Whole, SetupOK, PushOK, Pushing
<1>9. OwnOK'
  BY <1>1, <1>2, <1>6 DEF Inv, OwnOK, SameOwner, Local, Configuring, FailureIsRolledBack
<1> QED
  BY <1>7, <1>8, <1>9 DEF Inv

LEMMA WikiStep == Inv /\ DisableWiki => Inv'
<1> SUFFICES ASSUME Inv, DisableWiki PROVE Inv'
  OBVIOUS
<1> DEFINE step == IF args.ci THEN "protect" ELSE "push"
<1>1. /\ pc = "settings" /\ mine /\ step \in {"create", "protect", "push"} /\ step # "create"
      /\ repos \in [{"own", "given"} -> {None} \cup Repo] /\ git \in GitRepo
  BY DEF Inv, Typed, OwnOK, Configuring, DisableWiki
<1>2. repos["own"] \in Repo /\ None \notin Repo
  BY <1>1, ArgsType DEF Inv, OwnOK
<1>3. /\ [repos["own"] EXCEPT !.settings = TRUE] \in Repo
      /\ [repos["own"] EXCEPT !.settings = TRUE].by = repos["own"].by
  BY <1>2 DEF Repo
<1>4. repos' = [repos EXCEPT !["own"] = [repos["own"] EXCEPT !.settings = TRUE]]
  BY DEF DisableWiki
<1>5. repos' \in [{"own", "given"} -> {None} \cup Repo] /\ SameOwner
  BY <1>1, <1>2, <1>3, <1>4 DEF SameOwner
<1>6. Continue(step) /\ UNCHANGED <<args, runs, todo, mine, disk, git, undeleted>>
  BY DEF DisableWiki, local
<1> HIDE DEF step
<1> QED
  BY <1>1, <1>5, <1>6, ContinueStep

LEMMA ProtectStep == ASSUME Inv, NEW b \in BOOLEAN, SetBranchProtection(b) PROVE Inv'
<1>1. /\ pc = "protect" /\ mine
      /\ repos \in [{"own", "given"} -> {None} \cup Repo] /\ git \in GitRepo
  BY DEF Inv, Typed, OwnOK, Configuring, SetBranchProtection
<1>2. repos["own"] \in Repo /\ None \notin Repo
  BY <1>1, ArgsType DEF Inv, OwnOK
<1>3. /\ [repos["own"] EXCEPT !.protected = b] \in Repo
      /\ [repos["own"] EXCEPT !.protected = b].by = repos["own"].by
  BY <1>2 DEF Repo
<1>4. repos' = [repos EXCEPT !["own"] = [repos["own"] EXCEPT !.protected = b]]
  BY DEF SetBranchProtection
<1>5. repos' \in [{"own", "given"} -> {None} \cup Repo] /\ SameOwner
  BY <1>1, <1>2, <1>3, <1>4 DEF SameOwner
<1>6. Continue("push") /\ UNCHANGED <<args, runs, todo, mine, disk, git, undeleted>>
  BY DEF SetBranchProtection, local
<1> QED
  BY <1>1, <1>5, <1>6, ContinueStep

\* A step of the push that leads to the next one.
LEMMA PushPhaseStep ==
  ASSUME Inv, pc \in Pushing, NEW step \in {"commit", "remote", "branch", "push"}, Go(step),
         git' \in GitRepo, UNCHANGED <<args, runs, todo, mine, disk, repos, undeleted>>,
         step = "commit" => git'.staged = disk,
         step # "commit" => git'.commit = disk,
         step \in {"branch", "push"} => git'.origin = Target
  PROVE  Inv'
<1>1. /\ rc = None /\ pc' = step /\ rc' = None /\ None # "0" /\ None # "1" /\ pc \notin Local
  BY ArgsType DEF Inv, Typed, Pushing, Local, Go
<1>2. Typed'
  BY <1>1 DEF Inv, Typed, Pushing
<1>3. RenderOK' /\ SetupOK'
  BY <1>1 DEF Inv, RenderOK, Whole, SetupOK, Pushing
<1>4. PushOK'
  BY <1>1 DEF Inv, PushOK, Pushing, Target
<1>5. OwnOK'
  BY <1>1 DEF Inv, OwnOK, Local, Configuring, Pushing, FailureIsRolledBack
<1> QED
  BY <1>2, <1>3, <1>4, <1>5 DEF Inv

LEMMA TargetType ==
  ASSUME Inv, pc \in Pushing
  PROVE  Target \in {"own", "given"}
BY ArgsType DEF Inv, PushOK, Target

LEMMA GitSteps == Inv /\ (GitAdd \/ GitCommit \/ AddRemote \/ RenameBranch) => Inv'
<1> SUFFICES ASSUME Inv, GitAdd \/ GitCommit \/ AddRemote \/ RenameBranch PROVE Inv'
  OBVIOUS
<1>1. git \in GitRepo /\ disk \in Disk
  BY DEF Inv, Typed
<1>2. CASE GitAdd
  <2>1. pc \in Pushing /\ Go("commit") /\ git' \in GitRepo /\ git'.staged = disk
        /\ UNCHANGED <<args, runs, todo, mine, disk, repos, undeleted>>
    BY <1>1, <1>2 DEF GitAdd, Pushing, GitRepo
  <2> QED
    BY <2>1, PushPhaseStep
<1>3. CASE GitCommit
  <2>1. pc \in Pushing /\ Go("remote") /\ git' \in GitRepo /\ git'.commit = disk
        /\ UNCHANGED <<args, runs, todo, mine, disk, repos, undeleted>>
    BY <1>1, <1>3 DEF GitCommit, Pushing, GitRepo, Inv, PushOK
  <2> QED
    BY <2>1, PushPhaseStep
<1>4. CASE AddRemote
  <2>1. pc = "remote" /\ git.commit = disk /\ Target \in {"own", "given"}
    BY <1>4, TargetType DEF AddRemote, Pushing, Inv, PushOK
  <2>2. pc \in Pushing /\ Go("branch") /\ git' \in GitRepo /\ git'.commit = disk
        /\ git'.origin = Target
        /\ UNCHANGED <<args, runs, todo, mine, disk, repos, undeleted>>
    BY <1>1, <1>4, <2>1 DEF AddRemote, Pushing, GitRepo
  <2> QED
    BY <2>2, PushPhaseStep
<1>5. CASE RenameBranch
  <2>1. pc \in Pushing /\ Go("push") /\ git' \in GitRepo /\ git'.commit = disk
        /\ git'.origin = Target
        /\ UNCHANGED <<args, runs, todo, mine, disk, repos, undeleted>>
    BY <1>1, <1>5 DEF RenameBranch, Pushing, GitRepo, Inv, PushOK
  <2> QED
    BY <2>1, PushPhaseStep
<1> QED
  BY <1>2, <1>3, <1>4, <1>5

\* What arrives is what this run has rendered, where it was to go.
LEMMA PushArrives ==
  ASSUME Inv, pc = "push", MayPush, repos' = Pushed
  PROVE  /\ Target \in {"own", "given"} /\ git.origin = Target
         /\ repos' \in [{"own", "given"} -> {None} \cup Repo] /\ SameOwner
         /\ repos'[Target] # None /\ repos'[Target].main = disk
         /\ \A r \in {"own", "given"} : r # Target => repos'[r] = repos[r]
<1>1. /\ git.origin = Target /\ git.commit = disk /\ Target \in {"own", "given"}
      /\ disk \in Disk /\ repos \in [{"own", "given"} -> {None} \cup Repo] /\ None \notin Repo
  BY ArgsType, TargetType DEF Inv, PushOK, Typed, Pushing
<1>2. repos[Target] \in Repo
  BY <1>1 DEF MayPush
<1>3. /\ [repos[Target] EXCEPT !.main = disk] \in Repo
      /\ [repos[Target] EXCEPT !.main = disk].by = repos[Target].by
      /\ [repos[Target] EXCEPT !.main = disk].main = disk
  BY <1>1, <1>2 DEF Repo
<1>4. repos' = [repos EXCEPT ![Target] = [repos[Target] EXCEPT !.main = disk]]
  BY <1>1 DEF Pushed
<1> QED
  BY <1>1, <1>2, <1>3, <1>4 DEF SameOwner

LEMMA PushStep == Inv /\ Push => Inv'
<1> SUFFICES ASSUME Inv, Push PROVE Inv'
  OBVIOUS
<1>1. /\ pc = "push" /\ MayPush /\ repos' = Pushed /\ pc' = "ended" /\ rc' = "0"
      /\ UNCHANGED <<args, runs, todo, mine, disk, git, undeleted>>
      /\ rc = None /\ None # "0" /\ None # "1" /\ Target' = Target
  BY ArgsType DEF Inv, Typed, Push, End, local, Target
<1>2. Typed'
  BY <1>1, PushArrives DEF Inv, Typed
<1>3. RenderOK' /\ SetupOK'
  BY <1>1 DEF Inv, RenderOK, Whole, SetupOK
<1>4. PushOK'
  BY <1>1, PushArrives DEF PushOK, Pushing
<1>5. OwnOK'
  BY <1>1, PushArrives DEF Inv, OwnOK, SameOwner, Local, Configuring, FailureIsRolledBack
<1> QED
  BY <1>2, <1>3, <1>4, <1>5 DEF Inv

LEMMA PushLostStep == Inv /\ PushLost => Inv'
<1> SUFFICES ASSUME Inv, PushLost PROVE Inv'
  OBVIOUS
<1>1. /\ pc = "push" /\ MayPush /\ repos' = Pushed /\ pc' = "ended" /\ rc' = "1"
      /\ UNCHANGED <<args, runs, todo, mine, disk, git>>
      /\ rc = None /\ None # "0" /\ None # "1"
      /\ mine \in BOOLEAN /\ args.rollback \in BOOLEAN
  BY ArgsType DEF Inv, Typed, PushLost, End, local
<1>2. undeleted' = (args.rollback /\ mine) /\ undeleted' \in BOOLEAN
  BY <1>1 DEF PushLost, MustRollBack
<1>3. Typed'
  BY <1>1, <1>2, PushArrives DEF Inv, Typed
<1>4. RenderOK' /\ SetupOK' /\ PushOK'
  BY <1>1 DEF Inv, RenderOK, SetupOK, PushOK, Pushing
<1>5. OwnOK'
  BY <1>1, <1>2, PushArrives DEF Inv, OwnOK, SameOwner, Local, Configuring, FailureIsRolledBack
<1> QED
  BY <1>3, <1>4, <1>5 DEF Inv

\* No repository is that of a run to come.
LEMMA AgainStep == ASSUME Inv, NEW a \in Args, RunAgain(a) PROVE Inv'
<1>1. /\ pc' = "render" /\ rc' = None /\ None # "0" /\ None # "1"
      /\ args' = a /\ todo' = a.files /\ mine' = FALSE /\ undeleted' = FALSE
      /\ runs' = runs + 1 /\ runs' \in 1 .. MaxRuns /\ runs \in 1 .. MaxRuns /\ MaxRuns \in Nat
      /\ a.files \in Seq(File) /\ UNCHANGED <<disk, git, repos>>
  BY GeneratorAssumption DEF Inv, Typed, RunAgain, local
<1>2. Typed'
  BY <1>1 DEF Inv, Typed, Local
<1>3. RenderOK' /\ SetupOK' /\ PushOK'
  BY <1>1 DEF RenderOK, SetupOK, PushOK, Pushing
<1>4. repos["own"] # None => repos["own"].by \in 0 .. MaxRuns /\ repos["own"].by <= runs
  BY DEF Inv, Typed, OwnOK, Repo
<1>5. OwnOK'
  BY <1>1, <1>4 DEF OwnOK, Local, Configuring, FailureIsRolledBack
<1> QED
  BY <1>2, <1>3, <1>5 DEF Inv

\* The steps that just end a run.
LEMMA EndSteps ==
  ASSUME Inv,
         \/ \E code \in {"1", "raised"} : RenderFails(code)
         \/ FetchFails \/ SetupFails \/ CreateRefused \/ ConfigureRaises \/ GitMissing
         \/ \E torn \in {{}} \cup {{f} : f \in File \cup Skill} : Kill(torn)
  PROVE  Inv'
<1>1. disk \in Disk /\ (pc \in Local => ~mine)
  BY DEF Inv, Typed, OwnOK
<1>2. ASSUME NEW code \in {"1", "raised"}, RenderFails(code) PROVE Inv'
  <2>1. pc = "render" /\ End(code) /\ UNCHANGED <<args, runs, todo, mine, disk, git, repos, undeleted>>
    BY <1>2 DEF RenderFails, local
  <2> QED
    BY <1>1, <2>1, EndStep DEF Local
<1>3. CASE FetchFails \/ SetupFails \/ CreateRefused
  <2>1. pc \in Local /\ End("1") /\ UNCHANGED <<args, runs, todo, mine, disk, git, repos, undeleted>>
    BY <1>3 DEF FetchFails, SetupFails, CreateRefused, local, Local
  <2>2. pc # "ended"
    BY <2>1 DEF Local
  <2> QED
    BY <1>1, <2>1, <2>2, EndStep
<1>4. CASE ConfigureRaises \/ GitMissing
  <2>1. pc # "ended" /\ End("raised") /\ UNCHANGED <<args, runs, todo, mine, disk, git, repos, undeleted>>
    BY <1>4 DEF ConfigureRaises, GitMissing, local
  <2> QED
    BY <1>1, <2>1, EndStep
<1>5. ASSUME NEW torn, Kill(torn) PROVE Inv'
  <2>1. /\ pc # "ended" /\ End("killed") /\ UNCHANGED <<args, runs, todo, mine, git, repos, undeleted>>
        /\ disk' = [f \in DOMAIN disk |-> IF f \in torn THEN "torn" ELSE disk[f]]
    BY <1>5 DEF Kill
  <2>2. disk' \in Disk
    BY <1>1, <2>1 DEF Disk
  <2> QED
    BY <2>1, <2>2, EndStep
<1> QED
  BY <1>2, <1>3, <1>4, <1>5

LEMMA NextInv == Inv /\ [Next]_vars => Inv'
<1> SUFFICES ASSUME Inv, [Next]_vars PROVE Inv'
  OBVIOUS
<1>1. CASE UNCHANGED vars
  BY <1>1 DEF vars, Inv, Typed, RenderOK, Whole, SetupOK, OwnOK, FailureIsRolledBack, PushOK, Target
<1>2. CASE \E fetched \in SUBSET Skill : FetchSkills(fetched)
  BY <1>2, FetchStep
<1>3. CASE \E b \in BOOLEAN : CreateLost(b)
  BY <1>3, CreateLostStep
<1>4. CASE \E b \in BOOLEAN : SetBranchProtection(b)
  BY <1>4, ProtectStep
<1>5. CASE \E b \in BOOLEAN : ConfigureFails(b) \/ StepFails(b)
  BY <1>5, FailStepStep DEF ConfigureFails, StepFails
<1>6. CASE \E a \in Args : RunAgain(a)
  BY <1>6, AgainStep
<1>7. CASE \/ \E code \in {"1", "raised"} : RenderFails(code)
           \/ FetchFails \/ SetupFails \/ CreateRefused \/ ConfigureRaises \/ GitMissing
           \/ \E torn \in {{}} \cup {{f} : f \in File \cup Skill} : Kill(torn)
  BY <1>7, EndSteps
<1>8. CASE \/ Render \/ GitInit \/ InstallHooks \/ CreateRepo \/ SetTopics \/ DisableWiki
           \/ GitAdd \/ GitCommit \/ AddRemote \/ RenameBranch \/ Push \/ PushLost
  BY <1>8, RenderStep, GitInitStep, HooksStep, CreateStep, TopicsStep, WikiStep, GitSteps,
     PushStep, PushLostStep
<1> QED
  BY <1>1, <1>2, <1>3, <1>4, <1>5, <1>6, <1>7, <1>8 DEF Next

\* The invariant behind the three results: what a run knows of the directory and of
\* GitHub at each step of its pipeline (_execute_generation_pipeline).
THEOREM GeneratorInvariant == Spec => []Inv
<1>1. Init => Inv
  BY InitInv
<1>2. Inv /\ [Next]_vars => Inv'
  BY NextInv
<1> QED
  BY <1>1, <1>2, PTL DEF Spec

\* A run that reports success has its files on disk in whole, and on the main
\* branch of the repository it was to push to, whatever earlier runs left behind
\* (_execute_generation_pipeline, run_initial_push).
THEOREM SuccessDelivers == Spec => []SuccessIsWhole
<1>1. Inv => SuccessIsWhole
  <2> SUFFICES ASSUME Inv, rc = "0" PROVE SuccessIsWhole
    BY DEF SuccessIsWhole
  <2>1. Whole /\ args.files # <<>> /\ args.files \in Seq(File)
    BY ArgsType DEF Inv, RenderOK
  <2>2. PICK f \in File : TRUE
    BY <2>1, HeadTail
  <2>3. disk \in Disk /\ None \notin Disk /\ disk # Theirs
    BY <2>2, ArgsType DEF Inv, Typed, Disk, Theirs
  <2>4. args.push => repos[Target] # None /\ repos[Target].main = disk
    BY DEF Inv, PushOK
  <2> QED
    BY <2>1, <2>3, <2>4 DEF SuccessIsWhole, Whole
<1> QED
  BY <1>1, GeneratorInvariant, PTL

\* A run that ends with an error it has caught itself leaves no repository of its own
\* on GitHub, unless it was told to or GitHub could not be told (_run_github_phase,
\* delete_github_repo).  A run that dies of an exception, as on a network error in
\* configure_github_repo, is none of these: it keeps its repository.
THEOREM FailureRollsBack == Spec => []FailureIsRolledBack
<1>1. Inv => FailureIsRolledBack
  BY DEF Inv, OwnOK
<1> QED
  BY <1>1, GeneratorInvariant, PTL

\* What a step may do to a repository.
Due(r) ==
    /\ repos[r] = None /\ repos'[r] # None =>
          /\ \A f \in ToSet(args.files) : disk[f] = "whole"
          /\ args.gitInit => git.init
          /\ args.hooks => git.hooks
    /\ repos[r] # None /\ repos'[r] = None => repos[r].by = runs
    /\ repos[r] # None /\ repos'[r] # None /\ repos[r].main # repos'[r].main => r = Target

LEMMA CreationIsDue ==
  ASSUME Inv, CreateRepo \/ \E b \in BOOLEAN : CreateLost(b), NEW r \in {"own", "given"}
  PROVE  Due(r)
<1>1. /\ pc = "create" /\ repos \in [{"own", "given"} -> {None} \cup Repo]
      /\ rc = None /\ None # "0"
  BY ArgsType DEF Inv, Typed, CreateRepo, CreateLost
<1>2. repos' = repos \/ (repos["own"] = None /\ repos' = [repos EXCEPT !["own"] = NewRepo(runs)])
  BY DEF CreateRepo, CreateLost
<1>3. Whole /\ (args.gitInit => git.init) /\ (args.hooks => git.hooks)
  BY <1>1 DEF Inv, RenderOK, SetupOK
<1> QED
  BY <1>1, <1>2, <1>3 DEF Due, Whole

LEMMA SettingsAreDue ==
  ASSUME Inv, SetTopics \/ DisableWiki \/ \E b \in BOOLEAN : SetBranchProtection(b),
         NEW r \in {"own", "given"}
  PROVE  Due(r)
<1>1. /\ mine /\ pc # "ended" /\ repos \in [{"own", "given"} -> {None} \cup Repo]
      /\ None \notin Repo
  BY ArgsType DEF Inv, Typed, OwnOK, Configuring, SetTopics, DisableWiki, SetBranchProtection
<1>2. repos["own"] \in Repo
  BY <1>1 DEF Inv, OwnOK
<1>3. PICK new : /\ repos' = [repos EXCEPT !["own"] = new]
                 /\ new \in Repo /\ new.main = repos["own"].main
  <2>1. CASE SetTopics
    <3>1. /\ [repos["own"] EXCEPT !.topics = TRUE] \in Repo
          /\ [repos["own"] EXCEPT !.topics = TRUE].main = repos["own"].main
      BY <1>2 DEF Repo
    <3>2. repos' = [repos EXCEPT !["own"] = [repos["own"] EXCEPT !.topics = TRUE]]
      BY <2>1 DEF SetTopics
    <3> QED
      BY <3>1, <3>2
  <2>2. CASE DisableWiki
    <3>1. /\ [repos["own"] EXCEPT !.settings = TRUE] \in Repo
          /\ [repos["own"] EXCEPT !.settings = TRUE].main = repos["own"].main
      BY <1>2 DEF Repo
    <3>2. repos' = [repos EXCEPT !["own"] = [repos["own"] EXCEPT !.settings = TRUE]]
      BY <2>2 DEF DisableWiki
    <3> QED
      BY <3>1, <3>2
  <2>3. ASSUME NEW b \in BOOLEAN, SetBranchProtection(b)
        PROVE  \E new : /\ repos' = [repos EXCEPT !["own"] = new]
                        /\ new \in Repo /\ new.main = repos["own"].main
    <3>1. /\ [repos["own"] EXCEPT !.protected = b] \in Repo
          /\ [repos["own"] EXCEPT !.protected = b].main = repos["own"].main
      BY <1>2 DEF Repo
    <3>2. repos' = [repos EXCEPT !["own"] = [repos["own"] EXCEPT !.protected = b]]
      BY <2>3 DEF SetBranchProtection
    <3> QED
      BY <3>1, <3>2
  <2> QED
    BY <2>1, <2>2, <2>3
<1> QED
  BY <1>1, <1>2, <1>3 DEF Due

LEMMA RollBackIsDue ==
  ASSUME Inv, pc # "ended", NEW deleted \in BOOLEAN, FailStep(deleted), NEW r \in {"own", "given"}
  PROVE  Due(r)
<1>1. repos \in [{"own", "given"} -> {None} \cup Repo] /\ mine \in BOOLEAN
  BY DEF Inv, Typed
<1>2. repos' = repos \/ (mine /\ repos' = [repos EXCEPT !["own"] = None])
  BY DEF FailStep, MustRollBack
<1>3. mine => repos["own"] # None /\ repos["own"].by = runs
  BY DEF Inv, OwnOK
<1> QED
  BY <1>1, <1>2, <1>3 DEF Due

LEMMA PushIsDue ==
  ASSUME Inv, Push \/ PushLost, NEW r \in {"own", "given"}
  PROVE  Due(r)
<1>1. pc = "push" /\ MayPush /\ repos' = Pushed
  BY DEF Push, PushLost
<1>2. git.origin = Target /\ repos[git.origin] # None
  BY <1>1 DEF Inv, PushOK, MayPush
<1> QED
  BY <1>1, <1>2, PushArrives DEF Due

\* On GitHub a run creates a repository only when everything local is in place,
\* deletes only its own, and pushes only where it was told to, although the
\* directory may hold the origin and the commits of earlier runs.
THEOREM RemoteIsSafe == Spec => RemoteChangesAreDue
<1>1. ASSUME Inv, [Next]_vars PROVE [\A r \in DOMAIN repos : Due(r)]_repos
  <2>1. DOMAIN repos = {"own", "given"}
    BY <1>1 DEF Inv, Typed
  <2>2. CASE CreateRepo \/ \E b \in BOOLEAN : CreateLost(b)
    BY <1>1, <2>1, <2>2, CreationIsDue
  <2>3. CASE SetTopics \/ DisableWiki \/ \E b \in BOOLEAN : SetBranchProtection(b)
    BY <1>1, <2>1, <2>3, SettingsAreDue
  <2>4. CASE \E b \in BOOLEAN : ConfigureFails(b) \/ StepFails(b)
    BY <1>1, <2>1, <2>4, RollBackIsDue DEF ConfigureFails, StepFails
  <2>5. CASE Push \/ PushLost
    BY <1>1, <2>1, <2>5, PushIsDue
  <2>6. CASE UNCHANGED repos
    BY <2>6
  <2>7. \/ CreateRepo \/ \E b \in BOOLEAN : CreateLost(b)
        \/ SetTopics \/ DisableWiki \/ \E b \in BOOLEAN : SetBranchProtection(b)
        \/ \E b \in BOOLEAN : ConfigureFails(b) \/ StepFails(b)
        \/ Push \/ PushLost
        \/ UNCHANGED repos
    <3>1. CASE UNCHANGED vars
      BY <3>1 DEF vars
    <3>2. CASE Render \/ FetchFails \/ GitInit \/ InstallHooks \/ SetupFails \/ CreateRefused
               \/ ConfigureRaises \/ GitAdd \/ GitCommit \/ AddRemote \/ RenameBranch \/ GitMissing
      BY <3>2 DEF Render, FetchFails, GitInit, InstallHooks, SetupFails, CreateRefused,
         ConfigureRaises, GitAdd, GitCommit, AddRemote, RenameBranch, GitMissing
    <3>3. CASE \/ \E code \in {"1", "raised"} : RenderFails(code)
               \/ \E fetched \in SUBSET Skill : FetchSkills(fetched)
               \/ \E torn \in {{}} \cup {{f} : f \in File \cup Skill} : Kill(torn)
               \/ \E a \in Args : RunAgain(a)
      BY <3>3 DEF RenderFails, FetchSkills, Kill, RunAgain
    <3> QED
      BY <1>1, <3>1, <3>2, <3>3 DEF Next
  <2> QED
    BY <2>2, <2>3, <2>4, <2>5, <2>6, <2>7
<1>2. Inv /\ [Next]_vars => [\A r \in DOMAIN repos : Due(r)]_repos
  BY <1>1
<1> QED
  BY <1>2, GeneratorInvariant, PTL DEF Spec, RemoteChangesAreDue, Due
=============================================================================
