------------------------------ MODULE Startup ------------------------------
(* Which folder the program opens when it starts, and what it refuses: the *)
(* precedence of crates/store/src/location.rs, the judgement of risk.rs and *)
(* Session::open of crates/ui/src/session.rs.  A path is the sequence of its *)
(* names, the first of them Root when it is absolute.                       *)
EXTENDS Naturals, Sequences, FiniteSets

CONSTANTS
    Names,       \* what a file or a folder may be called
    Envs,        \* the environments the program may be started in
    Folders,     \* the folders there are at first, by their real paths
    Links,       \* the folder each symbolic link leads to, by the link's path
    AppRoot,     \* the repository the program was built from
    OtherRepos,  \* folders another repository may be started in
    Chosen,      \* folders somebody may have the program remember
    MaxOpen,     \* how many times a window is opened
    MaxEdits,    \* how many times the pointer is written or a repository made
    None

Root == "/"
Blank == <<"">>

VARIABLES
    folders,     \* the folders there are
    repos,       \* those with a .git in them
    pointer,     \* what each vault-location.json says, None when unreadable
    window,      \* how the last start ended, and in which folder
    opens, edits

vars == <<folders, repos, pointer, window, opens, edits>>

-----------------------------------------------------------------------------
(* Paths. *)

IsAbsolute(p) == Len(p) > 0 /\ p[1] = Root

(* std::path::absolute: against the working directory, links left alone. *)
Absolute(p, cwd) == IF IsAbsolute(p) THEN p ELSE cwd \o p

Upto(p, n) == SubSeq(p, 1, n)

(* Where the system is led by a path: through the link on it, if there is one. *)
Followed(p, cwd) ==
    LET a == Absolute(p, cwd)
        hops == {n \in 1..Len(a) : Upto(a, n) \in DOMAIN Links}
    IN  IF hops = {} THEN a
        ELSE LET n == CHOOSE n \in hops : TRUE
             IN  Links[Upto(a, n)] \o SubSeq(a, n + 1, Len(a))

(* canonicalize answers for a folder that is there; the callers fall back on *)
(* the path as it was given.                                                 *)
Canonicalize(p, cwd) ==
    IF p # <<>> /\ Followed(p, cwd) \in folders THEN Followed(p, cwd) ELSE p

(* Each path to the folders a path is in, itself first, sixty-four at most. *)
Ancestors(p) ==
    {Upto(p, n) : n \in {k \in 0..Len(p) : Len(p) - k < 64 /\ (IsAbsolute(p) => k > 0)}}

GitRoots(p, cwd) == {a \in Ancestors(p) : Followed(a, cwd) \in repos}

Nearest(paths) == CHOOSE a \in paths : \A b \in paths : Len(b) <= Len(a)

-----------------------------------------------------------------------------
(* What the machine is like. *)

Within(p, q) == Len(q) <= Len(p) /\ Upto(p, Len(q)) = q

ASSUME NamesAssumption ==
    {Root, ".vn-finance", ".local/share", "vn-finance",
     "ledger", "obligations", "audit", "documents"} \subseteq Names
ASSUME EnvsAssumption ==
    \A env \in Envs :
        /\ env.cwd \in Seq(Names) /\ IsAbsolute(env.cwd)
        /\ \A dir \in {env.home, env.xdg, env.dataDir} : dir = None \/ dir \in Seq(Names)
ASSUME FoldersAssumption ==
    /\ AppRoot \in Folders
    /\ \A dir \in Folders \cup OtherRepos : dir \in Seq(Names) /\ IsAbsolute(dir)
    /\ \A dir \in Chosen : dir \in Seq(Names)
\* A path goes through one link at most, and AppRoot is a real path.
ASSUME LinksAssumption ==
    \A k \in DOMAIN Links :
        /\ k \in Seq(Names) /\ Links[k] \in Seq(Names) /\ IsAbsolute(Links[k])
        /\ ~Within(AppRoot, k)
        /\ \A l \in DOMAIN Links : /\ k # l => ~Within(k, l)
                                   /\ ~Within(k, Links[l]) /\ ~Within(Links[l], k)

-----------------------------------------------------------------------------
(* crates/store/src/location.rs *)

NonBlank(value) == value \notin {None, Blank}

(* A home that is not set is the empty path, and joining to it is relative. *)
Home(env) == IF NonBlank(env.home) THEN env.home ELSE <<>>

DefaultDataDir(env) ==
    IF env.windows THEN Home(env) \o <<".vn-finance">>
    ELSE (IF NonBlank(env.xdg) THEN env.xdg ELSE Home(env) \o <<".local/share">>) \o <<"vn-finance">>

PointerFile(env) == Followed(DefaultDataDir(env), env.cwd)

ReadVaultPointer(env) ==
    IF PointerFile(env) \in DOMAIN pointer THEN pointer[PointerFile(env)] ELSE None

Resolved(dir, source) == [dir |-> dir, source |-> source]

(* A pointer followed only to a folder that is there. *)
ResolveIfThere(env) ==
    LET told == ReadVaultPointer(env)
    IN  IF NonBlank(env.dataDir) THEN Resolved(Absolute(env.dataDir, env.cwd), "Env")
        ELSE IF NonBlank(told) /\ Followed(told, env.cwd) \in folders
             THEN Resolved(Absolute(told, env.cwd), "Pointer")
        ELSE Resolved(DefaultDataDir(env), "Default")

(* The window gives no flag, so that the environment comes first.  Only the *)
(* default is not made absolute.                                            *)
ResolveVaultLocation(env) ==
    LET told == ReadVaultPointer(env)
    IN  IF NonBlank(env.dataDir) THEN Resolved(Absolute(env.dataDir, env.cwd), "Env")
        ELSE IF NonBlank(told) THEN Resolved(Absolute(told, env.cwd), "Pointer")
        ELSE Resolved(DefaultDataDir(env), "Default")

(* crates/store/src/risk.rs *)

(* The judgement of the path as it is written. *)
RiskAsGiven(dir, cwd) ==
    IF GitRoots(dir, cwd) = {} THEN "None"
    ELSE IF Canonicalize(Nearest(GitRoots(dir, cwd)), cwd) = AppRoot THEN "Fatal"
    ELSE "Warning"

CheckDataDirRisk(dir, cwd) ==
    LET start == Canonicalize(dir, cwd)
    IN  IF GitRoots(start, cwd) = {} THEN "None"
        ELSE IF Canonicalize(Nearest(GitRoots(start, cwd)), cwd) = AppRoot THEN "Fatal"
        ELSE "Warning"

-----------------------------------------------------------------------------
NoWindow == [outcome |-> "none"]

Init ==
    /\ folders = Folders
    /\ repos = {AppRoot}
    /\ pointer = <<>>
    /\ window = NoWindow
    /\ opens = 0 /\ edits = 0

Made(dir, cwd) == {Upto(Followed(dir, cwd), n) : n \in 1..Len(Followed(dir, cwd))}

Ensured(dir, cwd) ==
    {Followed(dir, cwd) \o <<name>> : name \in {"ledger", "obligations", "audit", "documents"}}

Ended(outcome, env, r) ==
    [outcome |-> outcome, env |-> env, dir |-> r.dir, source |-> r.source,
     new |-> Followed(r.dir, env.cwd) \notin folders, asTold |-> TRUE]

(* The folder made before it is judged. *)
MakeFirst(env) ==
    LET r == ResolveVaultLocation(env)
        refused == CheckDataDirRisk(r.dir, env.cwd) = "Fatal"
    IN  /\ folders' = folders \cup Made(r.dir, env.cwd)
                        \cup (IF refused THEN {} ELSE Ensured(r.dir, env.cwd))
        /\ window' = Ended(IF refused THEN "refused" ELSE "open", env, r)

(* Session::open and, when the folder is not refused, open_in.  The folder is *)
(* made before the lock is taken, the four inside it after.                   *)
OpenIn(env) ==
    LET r == ResolveVaultLocation(env)
    IN  IF CheckDataDirRisk(r.dir, env.cwd) = "Fatal"
        THEN /\ window' = Ended("refused", env, r)
             /\ UNCHANGED folders
        ELSE \/ /\ window' = Ended("open", env, r)
                /\ folders' = folders \cup Made(r.dir, env.cwd) \cup Ensured(r.dir, env.cwd)
             \/ \* the folder cannot be made, the lock is held, or ensure fails
                /\ window' = Ended("failed", env, r)
                /\ \/ UNCHANGED folders
                   \/ folders' = folders \cup Made(r.dir, env.cwd)

Open(env) ==
    /\ window.outcome # "open"
    /\ opens < MaxOpen
    /\ opens' = opens + 1
    /\ OpenIn(env)
    /\ UNCHANGED <<repos, pointer, edits>>

Close ==
    /\ window.outcome = "open"
    /\ window' = NoWindow
    /\ UNCHANGED <<folders, repos, pointer, opens, edits>>

Edits ==
    /\ edits < MaxEdits
    /\ edits' = edits + 1
    /\ UNCHANGED opens

(* The window was resolved from a pointer that has changed since. *)
Untold == IF window.outcome = "none" THEN window ELSE [window EXCEPT !.asTold = FALSE]

(* The folder as it was typed, which depends on where that was. *)
WriteVaultPointerAsGiven(env, dir) ==
    /\ Edits
    /\ pointer' = [f \in DOMAIN pointer \cup {PointerFile(env)} |->
                      IF f = PointerFile(env) THEN dir ELSE pointer[f]]
    /\ folders' = folders \cup Made(DefaultDataDir(env), env.cwd)
    /\ window' = Untold
    /\ UNCHANGED repos

(* write_vault_pointer: the folder is made absolute, the file is replaced in  *)
(* the default folder, which is made.  No window of this build calls it: the  *)
(* pointer was written by the version before it, or by hand.                  *)
WriteVaultPointer(env, dir) ==
    /\ Edits
    /\ pointer' = [f \in DOMAIN pointer \cup {PointerFile(env)} |->
                      IF f = PointerFile(env) THEN Absolute(dir, env.cwd) ELSE pointer[f]]
    /\ folders' = folders \cup Made(DefaultDataDir(env), env.cwd)
    /\ window' = Untold
    /\ UNCHANGED repos

(* The file is cut short or emptied; a read ignores it. *)
DamagePointer(f) ==
    /\ Edits
    /\ pointer[f] # None
    /\ pointer' = [pointer EXCEPT ![f] = None]
    /\ window' = Untold
    /\ UNCHANGED <<folders, repos>>

(* Somebody runs git init: dotfiles in a home, a project inside a project. *)
GitInit(dir) ==
    /\ Edits
    /\ dir \notin repos
    /\ repos' = repos \cup {dir}
    /\ folders' = folders \cup {dir}
    /\ UNCHANGED <<pointer, window>>

Next ==
    \/ \E env \in Envs : Open(env)
    \/ Close
    \/ \E env \in Envs, dir \in Chosen : WriteVaultPointer(env, dir)
    \/ \E f \in DOMAIN pointer : DamagePointer(f)
    \/ \E dir \in OtherRepos : GitInit(dir)

Spec == Init /\ [][Next]_vars

-----------------------------------------------------------------------------
Started == window.outcome # "none"
IsOpen == window.outcome = "open"
Place == Followed(window.dir, window.env.cwd)

(* The folder whose own repository is the program's. *)
InAppRepo(place) ==
    LET roots == {a \in Ancestors(place) : a \in repos}
    IN  roots # {} /\ Nearest(roots) = AppRoot

(* The two ways a folder that is not there yet is judged elsewhere than it   *)
(* will be made: behind a link, and by the relative default of a machine     *)
(* that names no home.                                                       *)
JudgedElsewhere == window.new /\ (~IsAbsolute(window.dir) \/ Place # window.dir)

(* Paths are paths, every repository and every folder of an open vault is a  *)
(* folder, and a window knows where it is (types, and what open_in leaves). *)
TypeOK ==
    /\ \A f \in folders : IsAbsolute(f)
    /\ repos \subseteq folders
    /\ \A f \in DOMAIN pointer : pointer[f] = None \/ IsAbsolute(pointer[f])
    /\ window.outcome \in {"none", "open", "refused", "failed"}
    /\ Started => window.env \in Envs /\ window.source \in {"Env", "Pointer", "Default"}
    /\ IsOpen => Place \in folders /\ Ensured(window.dir, window.env.cwd) \subseteq folders

(* What risk.rs promises, as far as Session::open keeps it: a vault open in  *)
(* the program's own repository is one that was made there by that very      *)
(* start, through a link or a relative path; never one that was there, and   *)
(* never one whose path leads there plainly.                                 *)
KeptOut == IsOpen /\ InAppRepo(Place) => JudgedElsewhere

(* The header shows data_dir_source at every reload, resolved anew: until    *)
(* somebody writes or damages the pointer, what is shown is why this folder  *)
(* was opened, and the same environment leads to it again.  Making the       *)
(* folder must not change the answer.                                        *)
SourceShown ==
    IsOpen /\ window.asTold => ResolveVaultLocation(window.env) = Resolved(window.dir, window.source)

(* A start that is refused leaves the disk as it was: what is made inside a  *)
(* repository before the refusal would be there to be published.             *)
RefusedLeavesNothing ==
    [][opens' > opens /\ window'.outcome = "refused" => folders' = folders]_vars
=============================================================================
