--------------------------------- MODULE UiPage ---------------------------------
(****************************************************************************)
(* The web UI (src/ui) shows one page at a time: the router mounts its      *)
(* component with fresh state and drops that state when the user leaves.    *)
(* `page` is the state of the mounted component, a record whose field kind  *)
(* names the component; `server` is what the API and the services behind it *)
(* have stored for it.  Each page is a module that extends this one; WebUi  *)
(* puts them together.  The loops of the API that work on the same rows as  *)
(* a page (VCS tokens, schedules, module versions) are written in the same  *)
(* two variables, beside or in place of the page.  All handlers run to      *)
(* their next await; requests that are not awaited one after the other may  *)
(* be answered in any order.                                                *)
(****************************************************************************)
EXTENDS Naturals, FiniteSets, Sequences

VARIABLES page, server

pageVars == <<page, server>>

On(kind) == page.kind = kind

(* The user has left; answers to what was asked before change nothing.      *)
Elsewhere == [kind |-> "left"]

None == "none"

(* A handler that asks the server for nothing sets the page's state only.   *)
Change(new) == page' = new /\ UNCHANGED server
================================================================================
