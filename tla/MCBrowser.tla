------------------------------- MODULE MCBrowser -------------------------------
(* Lookups, Editors, Shell and ClientSession for TLC.  They share nothing: each    *)
(* behaviour is one of the four, with the others at one initial state, so that    *)
(* their states add up.                                                           *)
EXTENDS Lookups, Editors, Shell, ClientSession, TLC

\* Two organizations with two workspaces each, and one that can be created.
MCFirstOrgs == <<"acme", "globex">>
MCFirstList == <<"plant", "lab", "shop">>
MCOrgOf == "plant" :> "acme" @@ "lab" :> "acme" @@ "shop" :> "globex" @@ "annex" :> "globex"
MCHomeOf == "floor" :> "plant" @@ "bench" :> "lab" @@ "counter" :> "shop" @@ "nook" :> "plant"
            @@ "dm" :> "none"

VARIABLE part   \* the one this behaviour is about

\* The parts this behaviour is not about.
NoLookups == panel = SearchBar
NoEditors == editor = EditAiSettings /\ scope = (CHOOSE s \in Scopes : TRUE)
NoSession == page = "app" /\ jar = NoCookie

MCInit ==
    /\ Init /\ EditorsInit /\ ShellInit /\ SessionInit
    /\ \/ part = "lookups" /\ NoEditors /\ NoSession
       \/ part = "editors" /\ NoLookups /\ NoSession
       \/ part = "shell" /\ NoLookups /\ NoEditors /\ NoSession
       \/ part = "session" /\ NoLookups /\ NoEditors

MCNext ==
    \/ part = "lookups" /\ Next /\ UNCHANGED <<editorVars, shellVars, sessionVars, part>>
    \/ part = "editors" /\ EditorsNext /\ UNCHANGED <<vars, shellVars, sessionVars, part>>
    \/ part = "shell" /\ ShellNext /\ UNCHANGED <<vars, editorVars, sessionVars, part>>
    \/ part = "session" /\ SessionNext /\ UNCHANGED <<vars, editorVars, shellVars, part>>

MCSpec == MCInit /\ [][MCNext]_<<vars, editorVars, shellVars, sessionVars, part>>

Interchangeable == Permutations(Fields) \cup Permutations(Scopes) \cup Permutations(Keys)

==============================================================================
