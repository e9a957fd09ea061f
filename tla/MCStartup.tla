----------------------------- MODULE MCStartup -----------------------------
(* A home with a synchronised folder that is a link into the program's       *)
(* repository, and environments with and without each variable.             *)
EXTENDS Startup, TLC

HomeDir == <<Root, "home">>
App == <<Root, "app">>
Docs == <<Root, "app", "docs">>

MCNames == STRING
MCFolders == {<<Root>>, HomeDir, App, Docs, HomeDir \o <<"vault">>}
MCLinks == (HomeDir \o <<"sync">>) :> Docs
MCAppRoot == App

Env(home, xdg, dataDir, cwd, windows) ==
    [home |-> home, xdg |-> xdg, dataDir |-> dataDir, cwd |-> cwd, windows |-> windows]

MCEnvs == {
    Env(HomeDir, None, None, HomeDir, FALSE),
    Env(HomeDir, Blank, Docs \o <<"vault">>, HomeDir, FALSE),
    Env(HomeDir, HomeDir \o <<"sync">>, Blank, HomeDir, FALSE),
    Env(None, None, None, App, FALSE),
    Env(Blank, None, None, Docs, TRUE),
    Env(HomeDir, None, <<"vault">>, HomeDir, TRUE)}

MCChosen == {HomeDir \o <<"vault">>, HomeDir \o <<"sync", "vault">>, App \o <<"vault">>,
             HomeDir \o <<"work">>, <<"vault">>}
MCOtherRepos == {HomeDir \o <<"work">>, Docs}
=============================================================================
