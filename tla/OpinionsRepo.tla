---------------------------- MODULE OpinionsRepo ----------------------------
(***************************************************************************)
(* The git checkout that holds OPINIONS.md and OPINIONS_SOURCES.jsonl, the *)
(* branch it tracks on the remote, and the working copies of the two files *)
(* (repo_checkout.py, tools/git_ops.py, recovery.py).                      *)
(*                                                                         *)
(* A commit is named by its author: the run in whose name the application  *)
(* committed ("chore: complete opinion run <id>") or an outside commit     *)
(* that somebody else pushed.  History is linear, so a branch is the set   *)
(* of commits reachable from its tip, the tip, and the content of the two  *)
(* files there.  Content is the set of runs and outside commits whose      *)
(* edits it includes: that is all the properties tell apart.               *)
(***************************************************************************)
CONSTANTS
    Runs,       \* identifiers of the opinion runs
    Outsiders,  \* commits pushed to the remote branch by somebody else
    Root        \* the commit both branches start from

ASSUME RepoAssumption ==
    /\ Runs \cap Outsiders = {}
    /\ Root \notin Runs \cup Outsiders

Content == SUBSET (Runs \cup Outsiders)
Branch == [commits : Content, tip : Runs \cup Outsiders \cup {Root}, files : Content]

VARIABLES
    local,   \* the checked-out branch (HEAD)
    remote,  \* origin/<branch>, as a fetch would see it
    tree     \* content of the two files in the working tree

repoVars == <<local, remote, tree>>

RepoTypeOK ==
    /\ local \in Branch
    /\ remote \in Branch
    /\ tree \in Content

RepoInit ==
    /\ local = [commits |-> {}, tip |-> Root, files |-> {}]
    /\ remote = [commits |-> {}, tip |-> Root, files |-> {}]
    /\ tree = {}

-----------------------------------------------------------------------------
(* State predicates *)

\* assert_targets_clean: neither file differs from HEAD.
TargetsClean == tree = local.files

\* Variant: ancestry is asked of HEAD.
OnHead(run) == run \in local.commits

\* git merge-base --is-ancestor <commit of run> origin/<branch>
OnRemote(run) == run \in remote.commits

\* Variant: `git push --force`.
CanPushForced == TRUE

\* `git push` succeeds only as a fast-forward of the remote branch.
CanPush == remote.commits \subseteq local.commits

\* ensure_opinions_repo succeeds: `pull --ff-only` leaves HEAD equal to the
\* remote branch.  A dirty target file that the pull would overwrite stops it.
CanCheckout ==
    /\ local.commits \subseteq remote.commits
    /\ local.commits = remote.commits \/ TargetsClean

(* Operations *)

\* Variant: the branch is moved (`reset --soft`), the files stay.
MoveBranch ==
    /\ local' = remote
    /\ tree' = tree

\* ensure_opinions_repo on an existing checkout: fetch, checkout, pull.
Checkout ==
    /\ local' = remote
    /\ tree' = IF local.commits = remote.commits THEN tree ELSE remote.files

\* commit_and_push_opinions_files(push = FALSE): clean targets make no commit.
Commit(run) ==
    local' = IF TargetsClean
             THEN local
             ELSE [commits |-> local.commits \cup {run}, tip |-> run, files |-> tree]

Push == remote' = local

\* Somebody else fast-forwards the remote branch.
OutsidePush(commit) ==
    /\ commit \notin remote.commits \cup local.commits
    /\ remote' = [commits |-> remote.commits \cup {commit},
                  tip |-> commit,
                  files |-> remote.files \cup {commit}]
=============================================================================
