----------------------------- MODULE ItemDelete -----------------------------
(***************************************************************************)
(* dashictl item delete --apply (dashictl/src/commands/item.rs): fetch the  *)
(* item, delete the objects its s3 assets name, then the item, then claim.  *)
(***************************************************************************)
EXTENDS Lake

CONSTANTS
    Removals,    \* invocations of the command
    Victim,      \* the item each is given
    HasCreds     \* whether its configuration holds S3 credentials

RemovalStates == [
    pc : {"fetch", "confirm", "assets", "stac", "claimed", "aborted"},
    hrefs : SUBSET Hrefs,     \* of the fetched item
    left : SUBSET Hrefs]      \* assets not looked at yet

ASSUME ItemDeleteAssumption ==
    /\ Victim \in [Removals -> Items]
    /\ HasCreds \in [Removals -> BOOLEAN]

VARIABLE removal

ItemDeleteTypeOK == removal \in [Removals -> RemovalStates]

ItemDeleteInit ==
    removal = [c \in Removals |-> [pc |-> "fetch", hrefs |-> {}, left |-> {}]]

-----------------------------------------------------------------------------

FetchItem(c) ==
    /\ removal[c].pc = "fetch"
    /\ removal' = [removal EXCEPT ![c] =
         IF Catalogued(Victim[c])
         THEN [pc |-> "confirm", hrefs |-> catalog[Victim[c]].hrefs, left |-> {}]
         ELSE [@ EXCEPT !.pc = "aborted"]]
    /\ UNCHANGED lakeVars

(* The operator types the item's id.  Without credentials the assets are    *)
(* left out with a warning.                                                 *)
Confirm(c) ==
    /\ removal[c].pc = "confirm"
    /\ removal' = [removal EXCEPT ![c] =
         IF HasCreds[c] THEN [@ EXCEPT !.pc = "assets", !.left = removal[c].hrefs]
         ELSE [@ EXCEPT !.pc = "stac"]]
    /\ UNCHANGED lakeVars

(* An asset whose href is not s3:// is skipped.                             *)
SkipAsset(c) ==
    /\ removal[c].pc = "assets"
    /\ \E h \in removal[c].left :
         /\ h.scheme # "s3"
         /\ removal' = [removal EXCEPT ![c].left = @ \ {h}]
    /\ UNCHANGED lakeVars

(* One DELETE of the object the href names; a folder's name is no object.   *)
DeleteAsset(c) ==
    /\ removal[c].pc = "assets"
    /\ \E h \in removal[c].left :
         /\ h.scheme = "s3"
         /\ DeleteObjects({h.name})
         /\ removal' = [removal EXCEPT ![c].left = @ \ {h}]
    /\ UNCHANGED <<collections, catalog>>

AssetsDone(c) ==
    /\ removal[c].pc = "assets"
    /\ removal[c].left = {}
    /\ removal' = [removal EXCEPT ![c].pc = "stac"]
    /\ UNCHANGED lakeVars

(* delete_stac, and the claim when it is answered with success.             *)
DeleteStac(c) ==
    /\ removal[c].pc = "stac"
    /\ IF Catalogued(Victim[c])
       THEN /\ WriteItem(Victim[c], NoItem)
            /\ removal' = [removal EXCEPT ![c].pc = "claimed"]
       ELSE /\ removal' = [removal EXCEPT ![c].pc = "aborted"]
            /\ UNCHANGED catalog
    /\ UNCHANGED <<collections, objects>>

(* Mutant of RemovalAborts: a failing call is passed over.                  *)
RemovalGoesOn(c) ==
    /\ removal[c].pc \in {"assets", "stac"}
    /\ removal' = [removal EXCEPT ![c].pc = IF removal[c].pc = "assets" THEN "stac" ELSE "claimed"]
    /\ UNCHANGED lakeVars

(* The operator declines, a call fails, or the command is interrupted.      *)
RemovalAborts(c) ==
    /\ removal[c].pc \notin {"claimed", "aborted"}
    /\ removal' = [removal EXCEPT ![c].pc = "aborted"]
    /\ UNCHANGED lakeVars

ItemDeleteStep(c) ==
    \/ FetchItem(c) \/ Confirm(c) \/ SkipAsset(c) \/ DeleteAsset(c)
    \/ AssetsDone(c) \/ DeleteStac(c)

ItemDeleteNext == \E c \in Removals : ItemDeleteStep(c) \/ RemovalAborts(c)
=============================================================================
