------------------------------- MODULE Tenants -------------------------------
(***************************************************************************)
(* Organizations: their creation with an owner (organizationOnboarding.    *)
(* service, organizationSlug) and their widget settings (widgetSettings.   *)
(* service, organization.repository, organization.model).                  *)
(*                                                                         *)
(* An organization is named by the request that creates it, which makes    *)
(* its id up; all the requests of a run derive their slugs from one base,  *)
(* so slugs are the attempts 0, 1, ... of the candidate sequence.  An      *)
(* action is one database operation with the code up to the next await:    *)
(*                                                                         *)
(*   create     gate -> owner -> ( look -> write )* -> undo on failure     *)
(*   settings   read -> save                                               *)
(***************************************************************************)
EXTENDS Naturals, FiniteSets

CONSTANTS
  Orgs,             \* organizations, each with the request that creates it
  Admins,           \* settings requests that may be in flight at once
  MaxSlugAttempts,  \* MAX_SLUG_ATTEMPTS
  Reserved,         \* candidates that are reserved
  MaxKeys,          \* bound: widget keys ever minted
  MaxSettings,      \* bound: settings requests ever made
  TenantFaults      \* of "ownerFails", "ownerLost", "writeFails", "writeLost",
                    \* "undoFails", "saveFails", "crashes"

ASSUME TenantsAssumption ==
  /\ MaxSlugAttempts \in Nat \ {0} /\ Reserved \subseteq Nat /\ MaxKeys \in Nat /\ MaxSettings \in Nat
  /\ IsFiniteSet(Orgs) /\ Cardinality(Orgs) <= MaxKeys
  /\ TenantFaults \subseteq {"ownerFails", "ownerLost", "writeFails", "writeLost",
                             "undoFails", "saveFails", "crashes"}

VARIABLES
  org,       \* the organizations collection
  spoken,    \* candidates that are reserved or another tenant's
  owner,     \* organizations whose owner membership exists
  creation,  \* the request that creates each organization
  minted,    \* widget keys minted so far
  setting,   \* the settings requests
  settings,  \* settings requests made so far
  retired,   \* history: widget keys that were in force and no longer are
  rotated,   \* history: the ones among them that a rotation replaced
  crossed,   \* history: the ones replaced by a request that had read none
  misled     \* history: organizations with a write that was reported failed
             \* and applied, a failed compensation, or a process that died

tenants == <<org, spoken, owner, creation, minted, setting, settings, retired, rotated, crossed,
             misled>>

NoKey == 0

Candidates == 0..MaxSlugAttempts - 1

NoOrganization == [exists |-> FALSE, slug |-> 0, key |-> NoKey, listed |-> FALSE, version |-> 0]

NotAsked == [pc |-> "idle", attempt |-> 0, error |-> "none"]

NoSetting == [pc |-> "idle", op |-> "none", org |-> "none", key |-> NoKey, version |-> 0,
              listed |-> FALSE, was |-> FALSE]

Organizations == {o \in Orgs : org[o].exists}

Taken == spoken \cup {org[o].slug : o \in Organizations}

At(o, pc) == creation[o].pc = pc

Move(o, pc) == creation' = [creation EXCEPT ![o].pc = pc]

InProgress(o) == creation[o].pc \in {"owner", "look", "write", "undo"}

Breaks(fault) == fault \in TenantFaults

slugs == <<org, spoken>>

keyring == <<minted, retired, rotated, crossed>>

asked == <<setting, settings>>

----------------------------------------------------------------------------
(* Creating an organization.                                               *)

\* The account may no longer be served.
Gate(o) ==
  /\ At(o, "idle") /\ ~org[o].exists
  /\ \E entitled \in BOOLEAN : Move(o, IF entitled THEN "owner" ELSE "refused")
  /\ UNCHANGED <<slugs, owner, keyring, asked, misled>>

\* The owner's membership comes first.  A failure ends the request, whether or
\* not the membership was written.
CreateOwner(o) ==
  /\ At(o, "owner")
  /\ \/ Move(o, "look") /\ owner' = owner \cup {o} /\ UNCHANGED misled
     \/ Breaks("ownerFails") /\ Move(o, "failed") /\ UNCHANGED <<owner, misled>>
     \/ /\ Breaks("ownerLost") /\ Move(o, "failed")
        /\ owner' = owner \cup {o} /\ misled' = misled \cup {o}
  /\ UNCHANGED <<slugs, keyring, asked>>

\* The next candidate, or none is left.
Advance(o, attempt) ==
  creation' = [creation EXCEPT ![o] =
    IF attempt \in Candidates
    THEN [pc |-> "look", attempt |-> attempt, error |-> "none"]
    ELSE [pc |-> "undo", attempt |-> attempt, error |-> "exhausted"]]

\* A candidate that is reserved, malformed or taken is passed over.
Look(o) ==
  /\ At(o, "look")
  /\ IF creation[o].attempt \in Taken
     THEN Advance(o, creation[o].attempt + 1)
     ELSE Move(o, "write")
  /\ UNCHANGED <<slugs, owner, keyring, asked, misled>>

\* Mutant: a request that loses the race for a slug gives up.
AfterLostRaceNone(attempt) == MaxSlugAttempts

\* A request that loses the race for a slug tries the next candidate.
AfterLostRace(attempt) == attempt + 1

Created(o) ==
  [exists |-> TRUE, slug |-> creation[o].attempt, key |-> minted + 1, listed |-> FALSE, version |-> 0]

\* Mutant: there is no unique index, and what Look found is relied on.
WriteAsLooked(o) ==
  /\ At(o, "write") /\ minted < MaxKeys
  /\ org' = [org EXCEPT ![o] = Created(o)] /\ minted' = minted + 1
  /\ Move(o, "created")
  /\ UNCHANGED <<spoken, owner, retired, rotated, crossed, asked, misled>>

\* The unique index has the last word on the slug; the hook mints the key.
WriteOrganization(o) ==
  /\ At(o, "write")
  /\ \/ /\ creation[o].attempt \in Taken
        /\ Advance(o, AfterLostRace(creation[o].attempt))
        /\ UNCHANGED <<org, minted, misled>>
     \/ /\ creation[o].attempt \notin Taken /\ minted < MaxKeys
        /\ org' = [org EXCEPT ![o] = Created(o)] /\ minted' = minted + 1
        /\ \/ Move(o, "created") /\ UNCHANGED misled
           \/ /\ Breaks("writeLost") /\ misled' = misled \cup {o}
              /\ creation' = [creation EXCEPT ![o].pc = "undo", ![o].error = "failed"]
  /\ UNCHANGED <<spoken, owner, retired, rotated, crossed, asked>>

\* A tenant with another name takes a candidate of this one's.
Elsewhere(c) ==
  /\ c \notin Taken /\ \E o \in Orgs : InProgress(o)
  /\ spoken' = spoken \cup {c}
  /\ UNCHANGED <<org, owner, creation, keyring, asked, misled>>

\* A look-up or a write fails outright.
CreationFails(o) ==
  /\ Breaks("writeFails") /\ creation[o].pc \in {"look", "write"}
  /\ creation' = [creation EXCEPT ![o].pc = "undo", ![o].error = "failed"]
  /\ UNCHANGED <<slugs, owner, keyring, asked, misled>>

\* Mutant: the membership is left behind.
UndoNothing(o) == owner

\* deleteById of the membership, and of nothing else.
WithoutOwner(o) == owner \ {o}

\* The compensation never changes the answer.
Undo(o) ==
  /\ At(o, "undo")
  /\ Move(o, creation[o].error)
  /\ \/ owner' = WithoutOwner(o) /\ UNCHANGED misled
     \/ Breaks("undoFails") /\ misled' = misled \cup {o} /\ UNCHANGED owner
  /\ UNCHANGED <<slugs, keyring, asked>>

----------------------------------------------------------------------------
(* Widget settings.                                                        *)

AskSetting(a, o, op) ==
  /\ setting[a].pc = "idle" /\ settings < MaxSettings /\ org[o].exists
  /\ \E listed \in IF op = "replace" THEN BOOLEAN ELSE {FALSE} :
       setting' = [setting EXCEPT ![a] =
         [NoSetting EXCEPT !.pc = "read", !.op = op, !.org = o, !.listed = listed]]
  /\ settings' = settings + 1
  /\ UNCHANGED <<slugs, owner, creation, keyring, misled>>

\* A get mints a key for an organization without, a replacement too; a rotation
\* always does.
Mints(s) == s.op = "rotate" \/ s.key = NoKey

\* Assigning the list it already has is no change.
WritesOrigins(s) == s.op = "replace" /\ s.listed # s.was

\* Mutant: a replacement saves the whole document, key included.
WritesDocument(s) == s.op = "replace" \/ Mints(s)

\* save() writes the paths that were assigned.
WritesKey(s) == Mints(s)

\* The document is loaded; with nothing to change, the request is answered.
ReadSettings(a) ==
  /\ setting[a].pc = "read"
  /\ LET o == org[setting[a].org]
         s == [setting[a] EXCEPT !.pc = "save", !.key = o.key, !.version = o.version,
                                 !.was = o.listed]
     IN  setting' = [setting EXCEPT ![a] =
           IF WritesKey(s) \/ WritesOrigins(s) THEN s ELSE NoSetting]
  /\ UNCHANGED <<slugs, owner, creation, keyring, settings, misled>>

\* The array of origins is saved on the version it was read at, or nothing is.
SaveSettings(a) ==
  /\ setting[a].pc = "save"
  /\ LET s == setting[a]
         old == org[s.org]
         key == IF Mints(s) THEN minted + 1 ELSE IF WritesKey(s) THEN s.key ELSE old.key
         out == {old.key} \ {NoKey, key}
     IN  IF WritesOrigins(s) /\ s.version # old.version
         THEN UNCHANGED <<org, keyring>>
         ELSE /\ Mints(s) => minted < MaxKeys
              /\ org' = [org EXCEPT ![s.org] =
                   [old EXCEPT !.key = key,
                               !.listed = IF WritesOrigins(s) THEN s.listed ELSE @,
                               !.version = IF WritesOrigins(s) THEN @ + 1 ELSE @]]
              /\ minted' = IF Mints(s) THEN minted + 1 ELSE minted
              /\ retired' = retired \cup out
              /\ rotated' = IF s.op = "rotate" THEN rotated \cup out ELSE rotated
              /\ crossed' = IF s.key = NoKey THEN crossed \cup out ELSE crossed
  /\ setting' = [setting EXCEPT ![a] = NoSetting]
  /\ UNCHANGED <<spoken, owner, creation, settings, misled>>

SettingFails(a) ==
  /\ Breaks("saveFails") /\ setting[a].pc = "save"
  /\ setting' = [setting EXCEPT ![a] = NoSetting]
  /\ UNCHANGED <<slugs, owner, creation, keyring, settings, misled>>

----------------------------------------------------------------------------
(* The process dies with its requests.                                     *)

Crash ==
  /\ Breaks("crashes")
  /\ (\E o \in Orgs : InProgress(o)) \/ (\E a \in Admins : setting[a].pc # "idle")
  /\ creation' = [o \in Orgs |-> IF InProgress(o) THEN [creation[o] EXCEPT !.pc = "died"]
                                                  ELSE creation[o]]
  /\ setting' = [a \in Admins |-> NoSetting]
  /\ misled' = misled \cup {o \in Orgs : InProgress(o)}
  /\ UNCHANGED <<slugs, owner, keyring, settings>>

----------------------------------------------------------------------------
(* The specification.                                                      *)

\* Either nobody has created anything, or every organization is an old one,
\* some of them from before widget keys.
TenantsInit ==
  /\ creation = [o \in Orgs |-> NotAsked] /\ spoken = Reserved
  /\ \/ org = [o \in Orgs |-> NoOrganization] /\ owner = {} /\ minted = 0
     \/ \E legacy \in SUBSET Orgs, n \in [Orgs -> 1..Cardinality(Orgs)] :
          /\ \A o, p \in Orgs : n[o] = n[p] => o = p
          /\ org = [o \in Orgs |-> [exists |-> TRUE, slug |-> MaxSlugAttempts + n[o],
                                    key |-> IF o \in legacy THEN NoKey ELSE n[o],
                                    listed |-> TRUE, version |-> 0]]
          /\ owner = Orgs /\ minted = Cardinality(Orgs)
  /\ setting = [a \in Admins |-> NoSetting] /\ settings = 0
  /\ retired = {} /\ rotated = {} /\ crossed = {} /\ misled = {}

TenantsNext ==
  \/ \E o \in Orgs :
       \/ Gate(o) \/ CreateOwner(o) \/ Look(o) \/ WriteOrganization(o) \/ CreationFails(o) \/ Undo(o)
  \/ \E c \in Candidates : Elsewhere(c)
  \/ \E a \in Admins :
       \/ \E o \in Orgs, op \in {"get", "replace", "rotate"} : AskSetting(a, o, op)
       \/ ReadSettings(a) \/ SaveSettings(a) \/ SettingFails(a)
  \/ Crash

TenantsSpec == TenantsInit /\ [][TenantsNext]_tenants

----------------------------------------------------------------------------
(* Properties.                                                             *)

TenantsTypeOK ==
  /\ \A o \in Orgs : org[o].exists \/ org[o] = NoOrganization
  /\ \A o, p \in Organizations : o # p =>
       org[o].slug # org[p].slug /\ (org[o].key = org[p].key => org[o].key = NoKey)
  /\ \A o \in Orgs : org[o].key <= minted
  /\ \A o \in Orgs : creation[o].pc \in {"look", "write"} => creation[o].attempt \in Candidates
  /\ rotated \cup crossed = retired

\* ADR-016, sections 3 and 4: there is no tenant that nobody owns, and no
\* membership of a tenant that does not exist once its creation has been
\* answered - but for writes that were applied and reported failed, failed
\* compensations and dead processes.
OwnerAndTenantTogether ==
  \A o \in Orgs \ misled :
    /\ org[o].exists => o \in owner
    /\ o \in owner => org[o].exists \/ InProgress(o)

\* ADR-016, section 7: a name is said to be exhausted only if every candidate
\* is reserved or taken, whatever other creations won on the way.
NotExhaustedFalsely ==
  \A o \in Orgs : At(o, "exhausted") => Candidates \subseteq Taken

\* ADR-020, section 5: a key that is out of force stays out, and it goes out by
\* a rotation only, or by a request that read the organization before it had a
\* key.
KeyStandsUntilRotated ==
  /\ \A o \in Orgs : org[o].key \notin retired
  /\ retired \subseteq rotated \cup crossed
=============================================================================
