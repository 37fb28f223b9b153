-------------------------- MODULE SessionCommands ---------------------------
(***************************************************************************)
(* `frost-client sessions [--close-all]' (frost-client/src/cli/session.rs) *)
(* beside everything else that uses the session store: the command lists   *)
(* the sessions of its user, then gets the info of each and, if asked to,  *)
(* closes it.  Every call is a step of its own, between which sessions may *)
(* be created, closed by others or time out; the first call that returns   *)
(* an error ends the command.  The ids come as a set, in whose order (that *)
(* of a HashSet) they are gone through.                                    *)
(***************************************************************************)
EXTENDS FrostdSessions

CONSTANT NoSession   \* no session is being looked at

ASSUME NoSessionAssumption == NoSession \notin SessionIds

VARIABLE cmd         \* the last or current command of every user

cmdVars == <<vars, cmd>>

\* A command of a user: pc is "info" or "close" before such a call for one of
\* the ids in todo, and "ok", "error" or "lost" in the end; current is the id
\* that is closed next, or that an error was about.  History: what was listed,
\* which of it was not live by then, and the live sessions that the user
\* coordinated by then.
NoCommand == [pc |-> "ok", close_all |-> FALSE, todo |-> {},
              current |-> NoSession, listed |-> {}, dead |-> {}, mine |-> {}]

CommandInit ==
    /\ Init
    /\ cmd = [u \in PublicKeys |-> NoCommand]

Running(u) == cmd[u].pc \in {"info", "close"}

-----------------------------------------------------------------------------

\* login and list_sessions; without sessions that is all.
List(u, close_all) ==
    LET ids == sessions_by_pubkey[u] IN
    /\ ~Running(u)
    /\ cmd' = [cmd EXCEPT ![u] =
         [pc        |-> IF ids = {} THEN "ok" ELSE "info",
          close_all |-> close_all,
          todo      |-> ids,
          current   |-> NoSession,
          listed    |-> ids,
          dead      |-> ids \ DOMAIN sessions,
          mine      |-> {id \in DOMAIN sessions :
                            sessions[id].coordinator_pubkey = u}]]
    /\ UNCHANGED vars

\* The command is done with id; the loop goes on with the others.
Advance(u, id) ==
    cmd' = [cmd EXCEPT ![u].todo = @ \ {id},
                       ![u].current = NoSession,
                       ![u].pc = IF cmd[u].todo = {id} THEN "ok" ELSE "info"]

EndWithError(u, id) ==
    cmd' = [cmd EXCEPT ![u].pc = "error", ![u].current = id]

\* get_session_info of any of the ids left.
Info(u, id) ==
    /\ cmd[u].pc = "info"
    /\ id \in cmd[u].todo
    /\ IF GetSessionInfoResult(u, id) # "Ok" THEN EndWithError(u, id)
       ELSE IF cmd[u].close_all
       THEN cmd' = [cmd EXCEPT ![u].pc = "close", ![u].current = id]
       ELSE Advance(u, id)
    /\ UNCHANGED vars

\* Mutant: the loop skips what it cannot close.
CloseOrSkip(u) ==
    LET id == cmd[u].current IN
    /\ cmd[u].pc = "close"
    /\ IF CloseSessionResult(u, id) = "Ok" THEN CloseSession(u, id)
       ELSE UNCHANGED vars
    /\ Advance(u, id)

Close(u) ==
    LET id == cmd[u].current IN
    /\ cmd[u].pc = "close"
    /\ IF CloseSessionResult(u, id) = "Ok"
       THEN CloseSession(u, id) /\ Advance(u, id)
       ELSE EndWithError(u, id) /\ UNCHANGED vars

\* A call that does not reach the server, or whose token has expired.
CallFails(u) ==
    /\ Running(u)
    /\ cmd' = [cmd EXCEPT ![u].pc = "lost"]
    /\ UNCHANGED vars

CommandNext ==
    \/ \E u \in PublicKeys :
          \/ \E close_all \in BOOLEAN : List(u, close_all)
          \/ \E id \in SessionIds : Info(u, id)
          \/ Close(u)
          \/ CallFails(u)
    \/ Next /\ UNCHANGED cmd

CommandSpec == CommandInit /\ [][CommandNext]_cmdVars

-----------------------------------------------------------------------------
(* Properties.                                                             *)

\* What the end of `frost-client sessions' tells its user.  If it succeeds,
\* everything that it listed was live then and, with --close-all ("close all
\* existing sessions", cli/args.rs), is gone, and so is every session the user
\* coordinated then, so none was missing from the list.  If it stops with an
\* error, it is because somebody else coordinates the session it is about, or
\* because that has ended; what was still to be done is among what was listed.
CommandOutcomes ==
    \A u \in PublicKeys : LET c == cmd[u] IN
        /\ c.pc = "ok" =>
              /\ c.dead = {}
              /\ c.close_all => (c.listed \cup c.mine) \cap DOMAIN sessions = {}
        /\ c.pc = "error" =>
              /\ c.current \in c.todo /\ c.todo \subseteq c.listed
              /\ c.current \in DOMAIN sessions =>
                    c.close_all /\ sessions[c.current].coordinator_pubkey # u

=============================================================================
