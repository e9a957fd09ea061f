---------------------------- MODULE StartupProofs ----------------------------
(***************************************************************************)
(* What holds of a start in any environments, with any links, folders and  *)
(* pointers.                                                               *)
(***************************************************************************)
EXTENDS Startup, TLAPS, WellFoundedInduction

(* The numbers of starts and of edits are numbers.                         *)
Counted == opens \in Nat /\ edits \in Nat

(* A window that was started says what it was started from.                *)
Described ==
    window = NoWindow \/ DOMAIN window = {"outcome", "env", "dir", "source", "new", "asTold"}

(* A start, a closing, or somebody's edit.                                  *)
LEMMA StepKinds == Next => (\E env \in Envs : Open(env)) \/ Close \/ Edits
<1> SUFFICES ASSUME Next PROVE (\E env \in Envs : Open(env)) \/ Close \/ Edits
  OBVIOUS
<1>1. ASSUME NEW env, NEW dir, WriteVaultPointer(env, dir) PROVE Edits
  BY <1>1 DEF WriteVaultPointer
<1>2. ASSUME NEW f, DamagePointer(f) PROVE Edits
  BY <1>2 DEF DamagePointer
<1>3. ASSUME NEW dir, GitInit(dir) PROVE Edits
  BY <1>3 DEF GitInit
<1>. QED
  BY <1>1, <1>2, <1>3, Zenon DEF Next

LEMMA AlwaysCounted == Spec => []Counted
<1>1. Init => Counted
  BY DEF Init, Counted
<1>2. Counted /\ [Next]_vars => Counted'
  <2> SUFFICES ASSUME Counted, [Next]_vars PROVE Counted'
    OBVIOUS
  <2>1. CASE \E env \in Envs : Open(env)
    BY <2>1 DEF Counted, Open
  <2>2. CASE Close
    BY <2>2 DEF Counted, Close
  <2>3. CASE Edits
    BY <2>3 DEF Counted, Edits
  <2>4. CASE UNCHANGED vars
    BY <2>4 DEF Counted, vars
  <2>. QED
    BY <2>1, <2>2, <2>3, <2>4, StepKinds
<1>. QED
  BY <1>1, <1>2, PTL DEF Spec

(* A start that is refused leaves the disk as it was (session.rs, open:    *)
(* the folder is judged before anything is made).                          *)
THEOREM RefusalMakesNothing == Spec => RefusedLeavesNothing
<1> DEFINE Untouched == opens' > opens /\ window'.outcome = "refused" => folders' = folders
<1>1. Counted /\ [Next]_vars => [Untouched]_vars
  <2> SUFFICES ASSUME Counted, Next, opens' > opens, window'.outcome = "refused"
               PROVE  folders' = folders
    OBVIOUS
  <2>1. PICK env \in Envs : Open(env)
    BY StepKinds DEF Counted, Close, Edits
  <2>2. CASE CheckDataDirRisk(ResolveVaultLocation(env).dir, env.cwd) = "Fatal"
    BY <2>1, <2>2 DEF Open, OpenIn
  <2>3. CASE CheckDataDirRisk(ResolveVaultLocation(env).dir, env.cwd) # "Fatal"
    <3>1. window'.outcome \in {"open", "failed"}
      BY <2>1, <2>3 DEF Open, OpenIn, Ended
    <3>. QED  BY <3>1
  <2>. QED
    BY <2>2, <2>3
<1>2. [][Untouched]_vars => RefusedLeavesNothing
  BY PTL DEF RefusedLeavesNothing
<1>. QED
  BY <1>1, <1>2, AlwaysCounted, PTL DEF Spec

(* Where the vault is does not depend on which folders there are, on what  *)
(* they hold or on what was opened: it depends on the pointers alone.      *)
LEMMA ResolvedByPointer ==
    ASSUME NEW env, UNCHANGED pointer
    PROVE  ResolveVaultLocation(env)' = ResolveVaultLocation(env)
BY DEF ResolveVaultLocation, ReadVaultPointer, PointerFile, DefaultDataDir, Home, NonBlank,
       Absolute, IsAbsolute, Followed, Upto, Resolved

LEMMA AlwaysDescribed == Spec => []Described
<1>1. Init => Described
  BY DEF Init, Described
<1>2. Described /\ [Next]_vars => Described'
  <2> SUFFICES ASSUME Described, [Next]_vars PROVE Described'
    OBVIOUS
  <2>1. ASSUME NEW env \in Envs, Open(env) PROVE Described'
    <3>1. PICK outcome : window' = Ended(outcome, env, ResolveVaultLocation(env))
      BY <2>1 DEF Open, OpenIn
    <3>. QED  BY <3>1 DEF Ended, Described
  <2>2. CASE Close
    BY <2>2 DEF Close, Described
  <2>3. CASE window' = Untold
    <3>1. CASE window.outcome = "none"
      BY <2>3, <3>1 DEF Untold, Described, NoWindow
    <3>2. CASE window.outcome # "none"
      <4>1. DOMAIN window = {"outcome", "env", "dir", "source", "new", "asTold"}
        BY <3>2 DEF Described, NoWindow
      <4>2. window' = [window EXCEPT !.asTold = FALSE]
        BY <2>3, <3>2 DEF Untold
      <4>3. DOMAIN window' = DOMAIN window
        BY <4>2, Zenon
      <4>. QED  BY <4>1, <4>3 DEF Described
    <3>. QED  BY <3>1, <3>2
  <2>4. CASE UNCHANGED window
    BY <2>4 DEF Described
  <2>. QED
    BY <2>1, <2>2, <2>3, <2>4 DEF Next, WriteVaultPointer, DamagePointer, GitInit, vars
<1>. QED
  BY <1>1, <1>2, PTL DEF Spec

(* The header's reason is the reason the folder was opened for, and the    *)
(* same environment leads there again, until a pointer changes             *)
(* (session.rs, data_dir_source; location.rs, resolve_vault_location).     *)
THEOREM HeaderIsRight == Spec => []SourceShown
<1>1. Init => SourceShown
  BY DEF Init, NoWindow, SourceShown, IsOpen
<1>2. Described /\ SourceShown /\ [Next]_vars => SourceShown'
  <2> SUFFICES ASSUME Described, SourceShown, [Next]_vars PROVE SourceShown'
    OBVIOUS
  <2>1. ASSUME NEW env \in Envs, Open(env) PROVE SourceShown'
    <3> DEFINE r == ResolveVaultLocation(env)
    <3>1. PICK outcome : window' = Ended(outcome, env, r)
      BY <2>1 DEF Open, OpenIn
    <3>2. window'.env = env /\ window'.dir = r.dir /\ window'.source = r.source
      BY <3>1 DEF Ended
    <3>3. r = Resolved(r.dir, r.source)
      BY DEF ResolveVaultLocation, Resolved
    <3>4. ResolveVaultLocation(env)' = r
      BY <2>1, ResolvedByPointer DEF Open
    <3>5. ResolveVaultLocation(window.env)' = ResolveVaultLocation(env)'
      BY <3>2 DEF ResolveVaultLocation, ReadVaultPointer
    <3> HIDE DEF r
    <3>. QED
      BY <3>2, <3>3, <3>4, <3>5 DEF SourceShown, Resolved
  <2>2. CASE Close
    BY <2>2 DEF Close, NoWindow, SourceShown, IsOpen
  <2>3. ASSUME window' = Untold PROVE SourceShown'
    <3>1. CASE window.outcome = "none"
      BY <2>3, <3>1 DEF Untold, SourceShown, IsOpen
    <3>2. CASE window.outcome # "none"
      <4>1. window' = [window EXCEPT !.asTold = FALSE]
        BY <2>3, <3>2 DEF Untold
      <4>2. "asTold" \in DOMAIN window
        BY <3>2 DEF Described, NoWindow
      <4>3. ~window'.asTold
        BY <4>1, <4>2, Zenon
      <4>. QED  BY <4>3 DEF SourceShown
    <3>. QED  BY <3>1, <3>2
  <2>4. CASE UNCHANGED <<window, pointer>>
    BY <2>4, ResolvedByPointer DEF SourceShown, IsOpen
  <2>. QED
    BY <2>1, <2>2, <2>3, <2>4 DEF Next, WriteVaultPointer, DamagePointer, GitInit, vars
<1>. QED
  BY <1>1, <1>2, AlwaysDescribed, PTL DEF Spec

(***************************************************************************)
(* Where a path leads.                                                     *)
(***************************************************************************)
RealPath(p) ==
    /\ p \in Seq(Names) /\ IsAbsolute(p)
    /\ \A n \in 1 .. Len(p) : Upto(p, n) \notin DOMAIN Links

LEMMA MadeAbsolute ==
    ASSUME NEW p, p \in Seq(Names), NEW cwd, cwd \in Seq(Names), IsAbsolute(cwd)
    PROVE  Absolute(p, cwd) \in Seq(Names) /\ IsAbsolute(Absolute(p, cwd))
<1>1. CASE IsAbsolute(p)
  BY <1>1 DEF Absolute
<1>2. CASE ~IsAbsolute(p)
  <2>1. cwd \o p \in Seq(Names) /\ IsAbsolute(cwd \o p)
    BY DEF IsAbsolute
  <2>2. Absolute(p, cwd) = cwd \o p
    BY <1>2 DEF Absolute
  <2>. QED
    BY <2>1, <2>2
<1>. QED
  BY <1>1, <1>2

LEMMA PrefixOf ==
    ASSUME NEW p, p \in Seq(Names), NEW n, n \in 1 .. Len(p)
    PROVE  /\ Upto(p, n) \in Seq(Names) /\ Len(Upto(p, n)) = n
           /\ \A m \in 1 .. n : Upto(Upto(p, n), m) = Upto(p, m)
           /\ IsAbsolute(p) => IsAbsolute(Upto(p, n))
           /\ Upto(p, Len(p)) = p
BY DEF Upto, IsAbsolute

(* A path that starts in the folder a link leads to meets no link.         *)
LEMMA BeyondLink ==
    ASSUME NEW l \in DOMAIN Links, NEW rest, rest \in Seq(Names)
    PROVE  RealPath(Links[l] \o rest)
<1> DEFINE t == Links[l]
           q == t \o rest
<1>1. t \in Seq(Names) /\ IsAbsolute(t)
  BY LinksAssumption
<1>2. \A k \in DOMAIN Links : k \in Seq(Names) /\ ~Within(k, t) /\ ~Within(t, k)
  BY LinksAssumption
<1> HIDE DEF t
<1>3. q \in Seq(Names) /\ Len(q) = Len(t) + Len(rest) /\ IsAbsolute(q)
  BY <1>1 DEF IsAbsolute
<1>4. ASSUME NEW n \in 1 .. Len(q), Upto(q, n) \in DOMAIN Links PROVE FALSE
  <2> DEFINE k == Upto(q, n)
  <2>1. Len(k) = n
    BY <1>3, PrefixOf
  <2>2. CASE n <= Len(t)
    <3>1. Upto(t, n) = k
      BY <1>1, <1>3, <2>2 DEF Upto
    <3>. QED
      BY <1>2, <1>4, <2>1, <2>2, <3>1 DEF Within
  <2>3. CASE n > Len(t)
    <3>1. Upto(k, Len(t)) = t
      BY <1>1, <1>3, <2>3 DEF Upto, IsAbsolute
    <3>. QED
      BY <1>1, <1>2, <1>4, <2>1, <2>3, <3>1 DEF Within
  <2>. QED
    BY <1>1, <1>3, <2>2, <2>3
<1>. QED
  BY <1>3, <1>4 DEF RealPath, t

(* Where the system is led by a path is a real path.                       *)
LEMMA LedToReal ==
    ASSUME NEW p, p \in Seq(Names), NEW cwd, cwd \in Seq(Names), IsAbsolute(cwd)
    PROVE  RealPath(Followed(p, cwd))
<1> DEFINE a == Absolute(p, cwd)
           hops == {n \in 1..Len(a) : Upto(a, n) \in DOMAIN Links}
           n == CHOOSE n \in hops : TRUE
<1>1. a \in Seq(Names) /\ IsAbsolute(a)
  BY MadeAbsolute
<1>2. CASE hops = {}
  <2>1. Followed(p, cwd) = a
    BY <1>2 DEF Followed
  <2>. QED
    BY <1>1, <1>2, <2>1 DEF RealPath
<1>3. CASE hops # {}
  <2>1. n \in hops
    BY <1>3
  <2>2. Followed(p, cwd) = Links[Upto(a, n)] \o SubSeq(a, n + 1, Len(a))
    BY <1>3 DEF Followed
  <2> HIDE DEF n, a
  <2>3. n \in 1 .. Len(a) /\ Upto(a, n) \in DOMAIN Links
    BY <2>1
  <2>4. SubSeq(a, n + 1, Len(a)) \in Seq(Names)
    BY <1>1, <2>3
  <2>. QED
    BY <2>2, <2>3, <2>4, BeyondLink
<1>. QED
  BY <1>2, <1>3

(* A real path leads where it says, and so does every folder it is in.     *)
LEMMA RealLeadsThere ==
    ASSUME NEW p, RealPath(p), NEW cwd
    PROVE  Followed(p, cwd) = p
BY DEF RealPath, Followed, Absolute

LEMMA RealAncestors ==
    ASSUME NEW p, RealPath(p), NEW a \in Ancestors(p)
    PROVE  RealPath(a)
<1>1. PICK n \in 1 .. Len(p) : a = Upto(p, n)
  BY DEF Ancestors, RealPath, IsAbsolute
<1>2. p \in Seq(Names) /\ IsAbsolute(p)
  BY DEF RealPath
<1>3. /\ a \in Seq(Names) /\ Len(a) = n /\ IsAbsolute(a)
      /\ \A m \in 1 .. n : Upto(a, m) = Upto(p, m)
  BY <1>1, <1>2, PrefixOf
<1>. QED
  BY <1>1, <1>3 DEF RealPath

LEMMA AppRootReal == RealPath(AppRoot)
<1>1. AppRoot \in Seq(Names) /\ IsAbsolute(AppRoot)
  BY FoldersAssumption
<1>2. ASSUME NEW n \in 1 .. Len(AppRoot), Upto(AppRoot, n) \in DOMAIN Links PROVE FALSE
  <2>1. Len(Upto(AppRoot, n)) = n
    BY <1>1, PrefixOf
  <2>2. Within(AppRoot, Upto(AppRoot, n))
    BY <1>1, <2>1 DEF Within
  <2>. QED
    BY <1>2, <2>2, LinksAssumption
<1>. QED
  BY <1>1, <1>2 DEF RealPath

(* From a real path, a folder with a repository around it is found by name. *)
LEMMA RootsByName ==
    ASSUME NEW p, RealPath(p), NEW cwd
    PROVE  GitRoots(p, cwd) = {a \in Ancestors(p) : a \in repos}
<1>1. \A a \in Ancestors(p) : Followed(a, cwd) = a
  BY RealAncestors, RealLeadsThere
<1>. QED
  BY <1>1 DEF GitRoots

(* The program's own repository is told from others whether its folder is  *)
(* there or not.                                                           *)
LEMMA AppRootTold == ASSUME NEW cwd PROVE Canonicalize(AppRoot, cwd) = AppRoot
BY AppRootReal, RealLeadsThere DEF Canonicalize

(* A vault that is judged where it will be is kept out.                    *)
LEMMA JudgedAndKeptOut ==
    ASSUME NEW dir, dir \in Seq(Names), dir # <<>>,
           NEW cwd, cwd \in Seq(Names), IsAbsolute(cwd),
           CheckDataDirRisk(dir, cwd) # "Fatal", InAppRepo(Followed(dir, cwd))
    PROVE  Followed(dir, cwd) \notin folders /\ (~IsAbsolute(dir) \/ Followed(dir, cwd) # dir)
<1> DEFINE place == Followed(dir, cwd)
<1>1. RealPath(place)
  BY LedToReal
<1>2. SUFFICES ASSUME Canonicalize(dir, cwd) = place PROVE FALSE
  BY DEF Canonicalize
<1> HIDE DEF place
<1>3. GitRoots(place, cwd) = {a \in Ancestors(place) : a \in repos}
  BY <1>1, RootsByName
<1>4. GitRoots(place, cwd) # {} /\ Nearest(GitRoots(place, cwd)) = AppRoot
  BY <1>3 DEF InAppRepo, place
<1>5. CheckDataDirRisk(dir, cwd) = "Fatal"
  BY <1>2, <1>4, AppRootTold DEF CheckDataDirRisk
<1>. QED
  BY <1>5

(***************************************************************************)
(* The folder an environment leads to.                                     *)
(***************************************************************************)
GoodPointers ==
    \A f \in DOMAIN pointer : pointer[f] = None \/ (pointer[f] \in Seq(Names) /\ IsAbsolute(pointer[f]))

LEMMA Joined ==
    ASSUME NEW p, p \in Seq(Names), NEW name, name \in Names
    PROVE  /\ p \o <<name>> \in Seq(Names) /\ p \o <<name>> # <<>>
           /\ (IsAbsolute(p) => IsAbsolute(p \o <<name>>))
<1>2. p \o <<name>> \in Seq(Names) /\ Len(p \o <<name>>) = Len(p) + 1
  OBVIOUS
<1>3. IsAbsolute(p) => (p \o <<name>>)[1] = p[1]
  BY DEF IsAbsolute
<1>4. IsAbsolute(p) => IsAbsolute(p \o <<name>>)
  BY <1>2, <1>3 DEF IsAbsolute
<1>5. p \o <<name>> # <<>>
  <2>1. Len(p \o <<name>>) # 0
    BY <1>2
  <2>. QED
    BY <2>1
<1>. QED
  BY <1>2, <1>4, <1>5

LEMMA FolderNames ==
    \A name \in {".local/share", ".vn-finance", "vn-finance", "ledger", "obligations", "audit", "documents"} :
        name \in Names
BY NamesAssumption

LEMMA DefaultIsPath ==
    ASSUME NEW env \in Envs
    PROVE  DefaultDataDir(env) \in Seq(Names) /\ DefaultDataDir(env) # <<>>
<1> DEFINE home == Home(env)
           data == IF NonBlank(env.xdg) THEN env.xdg ELSE home \o <<".local/share">>
<1>1. home \in Seq(Names)
  <2>1. env.home = None \/ env.home \in Seq(Names)
    BY EnvsAssumption
  <2>2. CASE NonBlank(env.home)
    BY <2>1, <2>2 DEF Home, NonBlank
  <2>3. CASE ~NonBlank(env.home)
    <3>1. Home(env) = <<>>
      BY <2>3 DEF Home
    <3>. QED
      BY <3>1
  <2>. QED
    BY <2>2, <2>3
<1> HIDE DEF home
<1>2. data \in Seq(Names)
  <2>1. env.xdg = None \/ env.xdg \in Seq(Names)
    BY EnvsAssumption
  <2>2. CASE NonBlank(env.xdg)
    BY <2>1, <2>2 DEF NonBlank
  <2>3. CASE ~NonBlank(env.xdg)
    BY <1>1, <2>3, Joined, FolderNames
  <2>. QED
    BY <2>2, <2>3
<1> HIDE DEF data
<1>3. DefaultDataDir(env) = IF env.windows THEN home \o <<".vn-finance">> ELSE data \o <<"vn-finance">>
  BY DEF DefaultDataDir, home, data
<1>4. CASE env.windows
  BY <1>1, <1>3, <1>4, Joined, FolderNames
<1>5. CASE ~env.windows
  BY <1>2, <1>3, <1>5, Joined, FolderNames
<1>. QED
  BY <1>4, <1>5

LEMMA ResolvedIsPath ==
    ASSUME NEW env \in Envs, GoodPointers
    PROVE  LET r == ResolveVaultLocation(env)
           IN  /\ r.dir \in Seq(Names) /\ r.dir # <<>>
               /\ r.source \in {"Env", "Pointer", "Default"}
<1> DEFINE told == ReadVaultPointer(env)
<1>1. env.cwd \in Seq(Names) /\ IsAbsolute(env.cwd) /\ (env.dataDir = None \/ env.dataDir \in Seq(Names))
  BY EnvsAssumption
<1>2. told = None \/ told \in Seq(Names)
  BY DEF ReadVaultPointer, GoodPointers
<1>3. ASSUME NEW p, p \in Seq(Names)
      PROVE  Absolute(p, env.cwd) \in Seq(Names) /\ Absolute(p, env.cwd) # <<>>
  <2>1. Absolute(p, env.cwd) \in Seq(Names) /\ IsAbsolute(Absolute(p, env.cwd))
    BY <1>1, <1>3, MadeAbsolute
  <2>. QED
    BY <2>1 DEF IsAbsolute
<1> HIDE DEF told
<1>4. CASE NonBlank(env.dataDir)
  <2>1. ResolveVaultLocation(env) = Resolved(Absolute(env.dataDir, env.cwd), "Env")
    BY <1>4 DEF ResolveVaultLocation
  <2>2. env.dataDir \in Seq(Names)
    BY <1>1, <1>4 DEF NonBlank
  <2>. QED
    BY <1>3, <2>1, <2>2 DEF Resolved
<1>5. CASE ~NonBlank(env.dataDir) /\ NonBlank(told)
  <2>1. ResolveVaultLocation(env) = Resolved(Absolute(told, env.cwd), "Pointer")
    BY <1>5 DEF ResolveVaultLocation, told
  <2>2. told \in Seq(Names)
    BY <1>2, <1>5 DEF NonBlank
  <2>. QED
    BY <1>3, <2>1, <2>2 DEF Resolved
<1>6. CASE ~NonBlank(env.dataDir) /\ ~NonBlank(told)
  <2>1. ResolveVaultLocation(env) = Resolved(DefaultDataDir(env), "Default")
    BY <1>6 DEF ResolveVaultLocation, told
  <2>. QED
    BY <2>1, DefaultIsPath DEF Resolved
<1>. QED
  BY <1>4, <1>5, <1>6

LEMMA FoldersMade ==
    ASSUME NEW dir, dir \in Seq(Names), NEW cwd, cwd \in Seq(Names), IsAbsolute(cwd)
    PROVE  /\ \A f \in Made(dir, cwd) \cup Ensured(dir, cwd) : IsAbsolute(f)
           /\ Followed(dir, cwd) \in Made(dir, cwd)
<1> DEFINE place == Followed(dir, cwd)
<1>1. place \in Seq(Names) /\ IsAbsolute(place)
  BY LedToReal DEF RealPath
<1> HIDE DEF place
<1>2. \A n \in 1 .. Len(place) : IsAbsolute(Upto(place, n))
  BY <1>1, PrefixOf
<1>3. \A name \in Names : IsAbsolute(place \o <<name>>)
  BY <1>1, Joined
<1>4. Len(place) \in 1 .. Len(place) /\ Upto(place, Len(place)) = place
  BY <1>1 DEF IsAbsolute, Upto
<1>5. Made(dir, cwd) = {Upto(place, n) : n \in 1 .. Len(place)}
  BY DEF Made, place
<1>6. Ensured(dir, cwd) = {place \o <<name>> : name \in {"ledger", "obligations", "audit", "documents"}}
  BY DEF Ensured, place
<1>7. \A f \in Made(dir, cwd) : IsAbsolute(f)
  BY <1>2, <1>5
<1>8. \A f \in Ensured(dir, cwd) : IsAbsolute(f)
  BY <1>3, <1>6, FolderNames
<1>9. place \in Made(dir, cwd)
  BY <1>4, <1>5
<1>. QED
  BY <1>7, <1>8, <1>9 DEF place

(***************************************************************************)
(* What every reachable state satisfies.                                   *)
(***************************************************************************)
GoodFolders ==
    /\ \A f \in folders : IsAbsolute(f)
    /\ repos \subseteq folders /\ AppRoot \in repos

(* A window knows where it is; an open one has its folders.                *)
GoodWindow ==
    window = NoWindow
    \/ /\ DOMAIN window = {"outcome", "env", "dir", "source", "new", "asTold"}
       /\ window.outcome \in {"open", "refused", "failed"}
       /\ window.env \in Envs
       /\ window.dir \in Seq(Names)
       /\ window.source \in {"Env", "Pointer", "Default"}
       /\ window.outcome = "open" =>
              Followed(window.dir, window.env.cwd) \in folders
              /\ Ensured(window.dir, window.env.cwd) \subseteq folders

StartInv == GoodPointers /\ GoodFolders /\ GoodWindow

(* A later repository hides the program's; it does not uncover it.         *)
LEMMA NearestOf ==
    ASSUME NEW p, p \in Seq(Names), NEW S, S \subseteq Ancestors(p), S # {}
    PROVE  Nearest(S) \in S /\ \A b \in S : Len(b) <= Len(Nearest(S))
<1> DEFINE Lens == {n \in Nat : \E a \in S : Len(p) - Len(a) = n}
<1>1. \A a \in S : Len(a) \in Nat /\ Len(a) <= Len(p)
  <2> SUFFICES ASSUME NEW a \in S PROVE Len(a) \in Nat /\ Len(a) <= Len(p)
    OBVIOUS
  <2>1. PICK n \in 0 .. Len(p) : a = Upto(p, n)
    BY DEF Ancestors
  <2>. QED
    BY <2>1 DEF Upto
<1>2. PICK k \in Lens : \A n \in Lens : ~(n < k)
  <2>1. PICK a \in S : TRUE
    OBVIOUS
  <2>2. Len(p) - Len(a) \in Lens
    BY <1>1
  <2>3. Lens \subseteq Nat /\ Lens # {}
    BY <2>2
  <2> HIDE DEF Lens
  <2>4. IsWellFoundedOn({ss \in Nat \X Nat : ss[1] < ss[2]}, Nat)
    BY NatLessThanWellFounded DEF OpToRel
  <2>5. PICK k \in Lens : \A n \in Lens : <<n, k>> \notin {ss \in Nat \X Nat : ss[1] < ss[2]}
    BY <2>3, <2>4, WFMin
  <2>. QED
    BY <2>3, <2>5
<1>3. PICK a \in S : Len(p) - Len(a) = k
  BY <1>2
<1>4. \A b \in S : Len(b) <= Len(a)
  <2> SUFFICES ASSUME NEW b \in S PROVE Len(b) <= Len(a)
    OBVIOUS
  <2>1. Len(p) - Len(b) \in Lens
    BY <1>1
  <2>2. ~(Len(p) - Len(b) < k)
    BY <1>2, <2>1
  <2>3. Len(a) \in Nat /\ Len(b) \in Nat /\ Len(p) \in Nat
    BY <1>1
  <2> HIDE DEF Lens
  <2>. QED
    BY <1>3, <2>2, <2>3
<1>. QED
  BY <1>3, <1>4 DEF Nearest

LEMMA NearestOnly ==
    ASSUME NEW p, p \in Seq(Names), NEW S, S \subseteq Ancestors(p),
           NEW a \in S, \A b \in S : Len(b) <= Len(a)
    PROVE  Nearest(S) = a
<1>1. Nearest(S) \in S /\ \A b \in S : Len(b) <= Len(Nearest(S))
  BY NearestOf
<1>2. ASSUME NEW b \in S PROVE b = Upto(p, Len(b)) /\ Len(b) \in Nat
  <2>1. PICK n \in 0 .. Len(p) : b = Upto(p, n)
    BY DEF Ancestors
  <2>. QED
    BY <2>1 DEF Upto
<1>3. Len(Nearest(S)) = Len(a)
  BY <1>1, <1>2
<1>. QED
  BY <1>1, <1>2, <1>3

LEMMA NotUncovered ==
    ASSUME NEW p, p \in Seq(Names), AppRoot \in repos, repos \subseteq repos', InAppRepo(p)'
    PROVE  InAppRepo(p)
<1> DEFINE before == {a \in Ancestors(p) : a \in repos}
           after == {a \in Ancestors(p) : a \in repos'}
<1>1. after # {} /\ Nearest(after) = AppRoot
  BY DEF InAppRepo, Nearest, Ancestors, Upto, IsAbsolute
<1>2. AppRoot \in after /\ \A b \in after : Len(b) <= Len(AppRoot)
  BY <1>1, NearestOf
<1>3. AppRoot \in before /\ \A b \in before : Len(b) <= Len(AppRoot)
  BY <1>2
<1>4. Nearest(before) = AppRoot
  BY <1>3, NearestOnly
<1>. QED
  BY <1>3, <1>4 DEF InAppRepo

StartFields == {"outcome", "env", "dir", "source", "new", "asTold"}

(* A start: it ends one of three ways, and what it makes is in the folder. *)
LEMMA StartEnds ==
    ASSUME StartInv, NEW env \in Envs, Open(env)
    PROVE  LET r == ResolveVaultLocation(env) IN
           /\ \E outcome \in {"open", "refused", "failed"} : window' = Ended(outcome, env, r)
           /\ folders \subseteq folders'
           /\ folders' \subseteq folders \cup Made(r.dir, env.cwd) \cup Ensured(r.dir, env.cwd)
           /\ window'.outcome = "open" =>
                  /\ Made(r.dir, env.cwd) \cup Ensured(r.dir, env.cwd) \subseteq folders'
                  /\ CheckDataDirRisk(r.dir, env.cwd) # "Fatal"
<1> DEFINE r == ResolveVaultLocation(env)
<1>1. OpenIn(env)
  BY DEF Open
<1>2. CASE /\ CheckDataDirRisk(r.dir, env.cwd) = "Fatal"
           /\ window' = Ended("refused", env, r) /\ UNCHANGED folders
  <2>1. window'.outcome = "refused"
    BY <1>2 DEF Ended
  <2>. QED
    BY <1>2, <2>1
<1>3. CASE /\ CheckDataDirRisk(r.dir, env.cwd) # "Fatal"
           /\ window' = Ended("open", env, r)
           /\ folders' = folders \cup Made(r.dir, env.cwd) \cup Ensured(r.dir, env.cwd)
  BY <1>3
<1>4. CASE /\ window' = Ended("failed", env, r)
           /\ (UNCHANGED folders \/ folders' = folders \cup Made(r.dir, env.cwd))
  <2>1. window'.outcome = "failed"
    BY <1>4 DEF Ended
  <2>. QED
    BY <1>4, <2>1
<1>. QED
  BY <1>1, <1>2, <1>3, <1>4 DEF OpenIn

LEMMA StartWindow ==
    ASSUME StartInv, NEW env \in Envs, Open(env)
    PROVE  LET r == ResolveVaultLocation(env) IN
           /\ DOMAIN window' = StartFields
           /\ window'.outcome \in {"open", "refused", "failed"}
           /\ window'.env = env /\ window'.dir = r.dir /\ window'.source = r.source
           /\ window'.new = (Followed(r.dir, env.cwd) \notin folders)
           /\ r.dir \in Seq(Names) /\ r.dir # <<>> /\ r.source \in {"Env", "Pointer", "Default"}
           /\ env.cwd \in Seq(Names) /\ IsAbsolute(env.cwd)
<1>1. PICK outcome \in {"open", "refused", "failed"} :
          window' = Ended(outcome, env, ResolveVaultLocation(env))
  BY StartEnds
<1>2. /\ DOMAIN window' = StartFields
      /\ window'.outcome = outcome
      /\ window'.env = env /\ window'.dir = ResolveVaultLocation(env).dir
      /\ window'.source = ResolveVaultLocation(env).source
      /\ window'.new = (Followed(ResolveVaultLocation(env).dir, env.cwd) \notin folders)
  BY <1>1 DEF Ended, StartFields
<1>. QED
  BY <1>2, ResolvedIsPath, EnvsAssumption DEF StartInv

LEMMA UntoldWindow ==
    ASSUME GoodWindow, window' = Untold
    PROVE  \/ window = NoWindow /\ window' = NoWindow
           \/ /\ DOMAIN window = StartFields /\ DOMAIN window' = StartFields
              /\ window'.outcome = window.outcome /\ window'.env = window.env
              /\ window'.dir = window.dir /\ window'.source = window.source
              /\ window'.new = window.new
<1>1. CASE window = NoWindow
  BY <1>1 DEF Untold, NoWindow
<1>2. CASE window # NoWindow
  <2>1. DOMAIN window = StartFields /\ window.outcome # "none"
    BY <1>2 DEF GoodWindow, StartFields
  <2>2. window' = [window EXCEPT !.asTold = FALSE]
    BY <2>1 DEF Untold
  <2>3. DOMAIN window' = DOMAIN window
    BY <2>2, Zenon
  <2>4. \A f \in StartFields : f # "asTold" => window'[f] = window[f]
    BY <2>1, <2>2
  <2>5. {"outcome", "env", "dir", "source", "new"} \subseteq StartFields
    BY DEF StartFields
  <2>6. /\ window'["outcome"] = window["outcome"] /\ window'["env"] = window["env"]
        /\ window'["dir"] = window["dir"] /\ window'["source"] = window["source"]
        /\ window'["new"] = window["new"]
    BY <2>4, <2>5
  <2>. QED
    BY <2>1, <2>3, <2>6
<1>. QED
  BY <1>1, <1>2

(* A window that stays where it is, with more folders around it.           *)
LEMMA WindowKept ==
    ASSUME GoodWindow, folders \subseteq folders',
           \/ window = NoWindow /\ window' = NoWindow
           \/ /\ DOMAIN window = StartFields /\ DOMAIN window' = StartFields
              /\ window'.outcome = window.outcome /\ window'.env = window.env
              /\ window'.dir = window.dir /\ window'.source = window.source
    PROVE  GoodWindow'
<1>1. CASE window = NoWindow /\ window' = NoWindow
  BY <1>1 DEF GoodWindow, NoWindow
<1>2. CASE /\ DOMAIN window = StartFields /\ DOMAIN window' = StartFields
           /\ window'.outcome = window.outcome /\ window'.env = window.env
           /\ window'.dir = window.dir /\ window'.source = window.source
  <2>0. window # NoWindow
    BY <1>2 DEF NoWindow, StartFields
  <2>1. /\ window'.outcome = window.outcome /\ window'.env = window.env
        /\ window'.dir = window.dir /\ window'.source = window.source
    BY <1>2
  <2>2. /\ window.outcome \in {"open", "refused", "failed"} /\ window.env \in Envs
        /\ window.dir \in Seq(Names) /\ window.source \in {"Env", "Pointer", "Default"}
        /\ window.outcome = "open" =>
               Followed(window.dir, window.env.cwd) \in folders
               /\ Ensured(window.dir, window.env.cwd) \subseteq folders
    BY <2>0 DEF GoodWindow
  <2>3. /\ Followed(window'.dir, window'.env.cwd) = Followed(window.dir, window.env.cwd)
        /\ Ensured(window'.dir, window'.env.cwd) = Ensured(window.dir, window.env.cwd)
    BY <2>1
  <2>4. window'.outcome = "open" =>
            Followed(window'.dir, window'.env.cwd) \in folders'
            /\ Ensured(window'.dir, window'.env.cwd) \subseteq folders'
    BY <2>1, <2>2, <2>3
  <2>. QED
    BY <1>2, <2>1, <2>2, <2>4 DEF GoodWindow, StartFields, Followed, Absolute, IsAbsolute, Upto, Ensured
<1>. QED
  BY <1>1, <1>2

LEMMA StartKeepsInv ==
    ASSUME StartInv, NEW env \in Envs, Open(env) PROVE StartInv'
<1> DEFINE r == ResolveVaultLocation(env)
<1>1. /\ DOMAIN window' = StartFields
      /\ window'.outcome \in {"open", "refused", "failed"}
      /\ window'.env = env /\ window'.dir = r.dir /\ window'.source = r.source
      /\ r.dir \in Seq(Names) /\ r.source \in {"Env", "Pointer", "Default"}
      /\ env.cwd \in Seq(Names) /\ IsAbsolute(env.cwd)
  BY StartWindow
<1>2. /\ folders \subseteq folders'
      /\ folders' \subseteq folders \cup Made(r.dir, env.cwd) \cup Ensured(r.dir, env.cwd)
      /\ window'.outcome = "open" => Made(r.dir, env.cwd) \cup Ensured(r.dir, env.cwd) \subseteq folders'
  BY StartEnds
<1>3. /\ \A f \in Made(r.dir, env.cwd) \cup Ensured(r.dir, env.cwd) : IsAbsolute(f)
      /\ Followed(r.dir, env.cwd) \in Made(r.dir, env.cwd)
  BY <1>1, FoldersMade
<1>4. GoodPointers'
  BY DEF StartInv, GoodPointers, Open, IsAbsolute
<1>5. repos' = repos
  BY DEF Open
<1> HIDE DEF r
<1>6. GoodFolders'
  BY <1>2, <1>3, <1>5 DEF StartInv, GoodFolders, IsAbsolute
<1>7. window'.outcome = "open" =>
          Followed(window'.dir, window'.env.cwd) \in folders'
          /\ Ensured(window'.dir, window'.env.cwd) \subseteq folders'
  BY <1>1, <1>2, <1>3
<1>8. GoodWindow'
  BY <1>1, <1>7 DEF GoodWindow, StartFields, Followed, Absolute, IsAbsolute, Upto, Ensured
<1>. QED
  BY <1>4, <1>6, <1>8 DEF StartInv

LEMMA InvStart == Init => StartInv
<1> SUFFICES ASSUME Init PROVE StartInv
  OBVIOUS
<1>1. GoodPointers
  BY DEF Init, GoodPointers
<1>2. GoodFolders
  BY FoldersAssumption DEF Init, GoodFolders
<1>3. GoodWindow
  BY DEF Init, GoodWindow
<1>. QED
  BY <1>1, <1>2, <1>3 DEF StartInv

(* Somebody's edits leave the window where it is and take no folder away.  *)
LEMMA EditsAround ==
    ASSUME StartInv,
           \/ \E env \in Envs, dir \in Chosen : WriteVaultPointer(env, dir)
           \/ \E f \in DOMAIN pointer : DamagePointer(f)
           \/ \E dir \in OtherRepos : GitInit(dir)
    PROVE  /\ window' = Untold \/ window' = window
           /\ folders \subseteq folders' /\ repos \subseteq repos'
           /\ GoodPointers' /\ GoodFolders'
<1>0. GoodPointers /\ GoodFolders
  BY DEF StartInv
<1>1. ASSUME NEW env \in Envs, NEW dir \in Chosen, WriteVaultPointer(env, dir)
      PROVE  /\ window' = Untold /\ folders \subseteq folders' /\ repos \subseteq repos'
             /\ GoodPointers' /\ GoodFolders'
  <2>1. /\ env.cwd \in Seq(Names) /\ IsAbsolute(env.cwd) /\ dir \in Seq(Names)
        /\ DefaultDataDir(env) \in Seq(Names)
    BY EnvsAssumption, FoldersAssumption, DefaultIsPath
  <2>2. Absolute(dir, env.cwd) \in Seq(Names) /\ IsAbsolute(Absolute(dir, env.cwd))
    BY <2>1, MadeAbsolute
  <2>3. \A f \in Made(DefaultDataDir(env), env.cwd) : IsAbsolute(f)
    BY <2>1, FoldersMade
  <2>4. /\ window' = Untold /\ repos' = repos
        /\ folders' = folders \cup Made(DefaultDataDir(env), env.cwd)
        /\ pointer' = [f \in DOMAIN pointer \cup {PointerFile(env)} |->
                          IF f = PointerFile(env) THEN Absolute(dir, env.cwd) ELSE pointer[f]]
    BY <1>1 DEF WriteVaultPointer
  <2>5. GoodPointers'
    BY <1>0, <2>2, <2>4 DEF GoodPointers, IsAbsolute
  <2>6. GoodFolders'
    BY <1>0, <2>3, <2>4 DEF GoodFolders, IsAbsolute
  <2>. QED
    BY <2>4, <2>5, <2>6
<1>2. ASSUME NEW f \in DOMAIN pointer, DamagePointer(f)
      PROVE  /\ window' = Untold /\ folders \subseteq folders' /\ repos \subseteq repos'
             /\ GoodPointers' /\ GoodFolders'
  <2>1. window' = Untold /\ folders' = folders /\ repos' = repos /\ pointer' = [pointer EXCEPT ![f] = None]
    BY <1>2 DEF DamagePointer
  <2>2. GoodPointers'
    BY <1>0, <2>1 DEF GoodPointers, IsAbsolute
  <2>. QED
    BY <1>0, <2>1, <2>2 DEF GoodFolders, IsAbsolute
<1>3. ASSUME NEW dir \in OtherRepos, GitInit(dir)
      PROVE  /\ window' = window /\ folders \subseteq folders' /\ repos \subseteq repos'
             /\ GoodPointers' /\ GoodFolders'
  <2>1. /\ window' = window /\ pointer' = pointer
        /\ folders' = folders \cup {dir} /\ repos' = repos \cup {dir}
    BY <1>3 DEF GitInit
  <2>2. IsAbsolute(dir)
    BY FoldersAssumption
  <2>. QED
    BY <1>0, <2>1, <2>2 DEF GoodPointers, GoodFolders, IsAbsolute
<1>. QED
  BY <1>1, <1>2, <1>3

LEMMA StaysOrUntold ==
    ASSUME GoodWindow, window' = Untold \/ window' = window
    PROVE  \/ window = NoWindow /\ window' = NoWindow
           \/ /\ DOMAIN window = StartFields /\ DOMAIN window' = StartFields
              /\ window'.outcome = window.outcome /\ window'.env = window.env
              /\ window'.dir = window.dir /\ window'.source = window.source
              /\ window'.new = window.new
<1>1. CASE window' = Untold
  BY <1>1, UntoldWindow
<1>2. CASE window' = window
  BY <1>2 DEF GoodWindow, StartFields
<1>. QED
  BY <1>1, <1>2

LEMMA InvKept == StartInv /\ [Next]_vars => StartInv'
<1> SUFFICES ASSUME StartInv, [Next]_vars PROVE StartInv'
  OBVIOUS
<1>1. ASSUME NEW env \in Envs, Open(env) PROVE StartInv'
  BY <1>1, StartKeepsInv
<1>2. CASE Close
  <2>1. window' = NoWindow /\ UNCHANGED <<folders, repos, pointer>>
    BY <1>2 DEF Close
  <2>. QED
    BY <2>1 DEF StartInv, GoodPointers, GoodFolders, GoodWindow, IsAbsolute, NoWindow
<1>3. CASE \/ \E env \in Envs, dir \in Chosen : WriteVaultPointer(env, dir)
           \/ \E f \in DOMAIN pointer : DamagePointer(f)
           \/ \E dir \in OtherRepos : GitInit(dir)
  <2>1. /\ window' = Untold \/ window' = window
        /\ folders \subseteq folders' /\ GoodPointers' /\ GoodFolders'
    BY <1>3, EditsAround
  <2>2. GoodWindow'
    BY <2>1, StaysOrUntold, WindowKept DEF StartInv
  <2>. QED
    BY <2>1, <2>2 DEF StartInv
<1>4. CASE UNCHANGED vars
  <2>1. window' = window /\ UNCHANGED <<folders, repos, pointer>>
    BY <1>4 DEF vars
  <2>2. GoodWindow'
    BY <2>1, StaysOrUntold, WindowKept DEF StartInv
  <2>. QED
    BY <2>1, <2>2 DEF StartInv, GoodPointers, GoodFolders, IsAbsolute
<1>. QED
  BY <1>1, <1>2, <1>3, <1>4 DEF Next

LEMMA StartInvHolds == Spec => []StartInv
<1>1. Init => StartInv
  BY InvStart
<1>2. StartInv /\ [Next]_vars => StartInv'
  BY InvKept
<1>. QED
  BY <1>1, <1>2, PTL DEF Spec

(* Every path is a path, a pointer says nothing or an absolute one, and an *)
(* open vault has its folders, wherever the environment and the links lead *)
(* (location.rs; layout.rs, ensure).                                       *)
THEOREM PathsAreRight == Spec => []TypeOK
<1>1. StartInv => TypeOK
  <2> SUFFICES ASSUME StartInv PROVE TypeOK
    OBVIOUS
  <2>1. CASE window = NoWindow
    BY <2>1 DEF StartInv, GoodPointers, GoodFolders, NoWindow, TypeOK, Started, IsOpen
  <2>2. CASE window # NoWindow
    BY <2>2 DEF StartInv, GoodPointers, GoodFolders, GoodWindow, TypeOK, Started, IsOpen, Place
  <2>. QED
    BY <2>1, <2>2
<1>. QED
  BY <1>1, StartInvHolds, PTL

(* No vault is open in the program's own repository, but one made there by *)
(* that very start through a link or a relative path: in any environment,  *)
(* whatever the pointers say and wherever repositories appear later        *)
(* (risk.rs, check_data_dir_risk; session.rs, open).                       *)
THEOREM VaultsKeptOut == Spec => []KeptOut
<1>1. Init => KeptOut
  BY DEF Init, NoWindow, KeptOut, IsOpen
<1>2. StartInv /\ KeptOut /\ [Next]_vars => KeptOut'
  <2> SUFFICES ASSUME StartInv, KeptOut, [Next]_vars, (IsOpen /\ InAppRepo(Place))'
               PROVE  JudgedElsewhere'
    BY DEF KeptOut
  <2>0. window'.outcome = "open" /\ InAppRepo(Place)'
    BY DEF IsOpen
  <2>1. ASSUME NEW env \in Envs, Open(env) PROVE JudgedElsewhere'
    <3> DEFINE r == ResolveVaultLocation(env)
               place == Followed(r.dir, env.cwd)
    <3>1. /\ window'.env = env /\ window'.dir = r.dir /\ window'.new = (place \notin folders)
          /\ r.dir \in Seq(Names) /\ r.dir # <<>> /\ env.cwd \in Seq(Names) /\ IsAbsolute(env.cwd)
      BY <2>1, StartWindow
    <3>2. CheckDataDirRisk(r.dir, env.cwd) # "Fatal"
      BY <2>0, <2>1, StartEnds
    <3>3. Place' = place
      BY <3>1 DEF Place, Followed, Absolute, IsAbsolute, Upto
    <3>4. InAppRepo(place)
      BY <2>0, <2>1, <3>3 DEF Open, InAppRepo
    <3>5. place \notin folders /\ (~IsAbsolute(r.dir) \/ place # r.dir)
      BY <3>1, <3>2, <3>4, JudgedAndKeptOut
    <3>. QED
      BY <3>1, <3>3, <3>5 DEF JudgedElsewhere, IsAbsolute
  <2>2. CASE Close
    BY <2>0, <2>2 DEF Close, NoWindow
  <2>3. CASE /\ window' = Untold \/ window' = window
             /\ repos \subseteq repos'
    <3>1. /\ window.outcome = "open" /\ window'.env = window.env
          /\ window'.dir = window.dir /\ window'.new = window.new
      BY <2>0, <2>3, StaysOrUntold DEF StartInv, NoWindow
    <3>2. Place' = Place
      BY <3>1 DEF Place, Followed, Absolute, IsAbsolute, Upto
    <3>3. Place \in Seq(Names)
      <4>1. window # NoWindow
        BY <3>1 DEF NoWindow
      <4>2. window.env \in Envs /\ window.dir \in Seq(Names)
        BY <4>1 DEF StartInv, GoodWindow
      <4>3. window.env.cwd \in Seq(Names) /\ IsAbsolute(window.env.cwd)
        BY <4>2, EnvsAssumption
      <4>. QED
        BY <4>2, <4>3, LedToReal DEF RealPath, Place
    <3>4. InAppRepo(Place)
      <4>1. PICK p : p = Place
        OBVIOUS
      <4>2. InAppRepo(p)'
        BY <2>0, <3>2, <4>1 DEF InAppRepo
      <4>3. InAppRepo(p)
        BY <2>3, <3>3, <4>1, <4>2, NotUncovered DEF StartInv, GoodFolders
      <4>. QED
        BY <4>1, <4>3
    <3>5. JudgedElsewhere
      BY <3>1, <3>4 DEF KeptOut, IsOpen
    <3>. QED
      BY <3>1, <3>2, <3>5 DEF JudgedElsewhere, IsAbsolute
  <2>4. CASE UNCHANGED vars
    BY <2>3, <2>4 DEF vars
  <2>. QED
    BY <2>1, <2>2, <2>3, <2>4, EditsAround DEF Next
<1>. QED
  BY <1>1, <1>2, StartInvHolds, PTL DEF Spec
=============================================================================
