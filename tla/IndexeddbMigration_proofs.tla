---------------------- MODULE IndexeddbMigration_proofs ----------------------
(***************************************************************************)
(* Proofs about IndexeddbMigration, for any number of tabs, page loads,    *)
(* local changes, resets and changes of the deployment.                    *)
(***************************************************************************)
EXTENDS IndexeddbMigration, SequenceTheorems, TLAPS

-----------------------------------------------------------------------------
(***************************************************************************)
(* Pages and their databases                                               *)
(***************************************************************************)

\* The fields of a page
LEMMA PageFields ==
  ASSUME NEW page \in Page
  PROVE  /\ page.pc \in {"closed", "login", "listed", "resolved", "open", "asked", "syncing",
                         "destroying", "deleted", "cutOff", "unusable"}
         /\ page.deployment \in Deployment /\ page.listed \in [Names -> Adapters \cup {"none"}]
         /\ page.name \in Names /\ page.adapter \in Adapters /\ page.pending \in BOOLEAN
         /\ page.covered \subseteq Changes /\ page.reset \in BOOLEAN
  BY DEF Page

\* A closed tab only remembers whether a reset is pending.
LEMMA ClosedPage ==
  ASSUME NEW reset \in BOOLEAN, NEW page, page = [NoTab EXCEPT !.reset = reset]
  PROVE  /\ page \in Page /\ page.pc = "closed" /\ page.name = "byId"
         /\ page.adapter = "indexeddb" /\ page.listed = [n \in Names |-> "none"]
         /\ page.reset = reset /\ ~page.pending /\ page.covered = {}
<1>1. NoTab \in Page
  BY DEF NoTab, Page, Deployment, Names, Adapters
<1> QED
  BY <1>1 DEF Page, NoTab

\* A database that is deleted under a page cuts the page off.
LEMMA CutOffPages ==
  ASSUME TypeOK, NEW t \in Tabs, NEW names
  PROVE  /\ CutOff(t, names) \in [Tabs -> Page]
         /\ \A s \in Tabs :
               LET page == CutOff(t, names)[s]
               IN  /\ page.pc = IF s # t /\ Open(s) /\ tab[s].name \in names
                                THEN "cutOff" ELSE tab[s].pc
                   /\ page.deployment = tab[s].deployment /\ page.listed = tab[s].listed
                   /\ page.name = tab[s].name /\ page.adapter = tab[s].adapter
                   /\ page.pending = tab[s].pending
                   /\ page.covered = tab[s].covered /\ page.reset = tab[s].reset
         /\ CutOff(t, names)[t] = tab[t]
<1>1. ASSUME NEW s \in Tabs, NEW page, page = [tab[s] EXCEPT !.pc = "cutOff"]
      PROVE  /\ page \in Page /\ page.pc = "cutOff"
             /\ page.deployment = tab[s].deployment /\ page.listed = tab[s].listed
             /\ page.name = tab[s].name /\ page.adapter = tab[s].adapter
             /\ page.pending = tab[s].pending
             /\ page.covered = tab[s].covered /\ page.reset = tab[s].reset
  <2>1. tab[s] \in Page
    BY DEF TypeOK
  <2> QED
    BY <1>1, <2>1 DEF Page
<1>2. \A s \in Tabs : tab[s] \in Page
  BY DEF TypeOK
<1> QED
  BY <1>1, <1>2 DEF CutOff

\* The effects of the steps on the pages.  The other tabs' pages stay.
LEMMA ListedPage ==
  ASSUME TypeOK, NEW t \in Tabs, FindExistingDbs(t)
  PROVE  /\ tab' \in [Tabs -> Page] /\ \A s \in Tabs \ {t} : tab'[s] = tab[s]
         /\ tab'[t].pc = "listed" /\ tab'[t].deployment = tab[t].deployment
         /\ tab'[t].listed = [n \in Names |-> dbs[n].adapter] /\ tab'[t].name = tab[t].name
         /\ tab'[t].adapter = tab[t].adapter /\ tab'[t].pending = tab[t].pending
         /\ tab'[t].covered = tab[t].covered /\ tab'[t].reset = tab[t].reset
<1> DEFINE listed == [n \in Names |-> dbs[n].adapter]
           page == [tab[t] EXCEPT !.pc = "listed", !.listed = listed]
<1>1. tab' = [tab EXCEPT ![t] = page]
  BY DEF FindExistingDbs, TypeOK
<1>2. listed \in [Names -> Adapters \cup {"none"}]
  BY DEF TypeOK
<1>3. tab[t] \in Page
  BY DEF TypeOK
<1> HIDE DEF listed
<1>4. /\ page \in Page /\ page.pc = "listed" /\ page.deployment = tab[t].deployment
      /\ page.listed = listed /\ page.name = tab[t].name
      /\ page.adapter = tab[t].adapter /\ page.pending = tab[t].pending
      /\ page.covered = tab[t].covered /\ page.reset = tab[t].reset
  BY <1>2, <1>3 DEF Page
<1> HIDE DEF page
<1> USE DEF listed
<1> QED
  BY <1>1, <1>4 DEF TypeOK

\* The configurations that resolveDbConfig() chooses from
LEMMA Configs ==
  ASSUME NEW d \in Deployment, NEW listed, NEW flag
  PROVE  LET config == DbConfig(d, listed, flag)
         IN  /\ config.name \in Names /\ config.adapter \in Adapters /\ config.pending \in BOOLEAN
             /\ LegacyName(d) \in Names
  BY DEF DbConfig, LegacyConfig, NewConfig, NewName, LegacyName, Names, Adapters

\* resolveDbConfig() chooses the database, and sets or removes the migration flag.
LEMMA ResolvedPage ==
  ASSUME TypeOK, NEW t \in Tabs, Resolve(t)
  PROVE  LET config == DbConfig(tab[t].deployment, tab[t].listed, migrated)
         IN  /\ tab' \in [Tabs -> Page] /\ \A s \in Tabs \ {t} : tab'[s] = tab[s]
             /\ tab'[t].pc = "resolved" /\ tab'[t].deployment = tab[t].deployment
             /\ tab'[t].listed = tab[t].listed /\ tab'[t].name = config.name
             /\ tab'[t].adapter = config.adapter /\ tab'[t].pending = config.pending
             /\ tab'[t].covered = tab[t].covered /\ tab'[t].reset = tab[t].reset
             /\ migrated' = (FlagOf(tab[t].deployment, migrated) \/
                             (tab[t].deployment.useIndexeddb /\ config = NewConfig))
<1> DEFINE config == DbConfig(tab[t].deployment, tab[t].listed, migrated)
           page == [tab[t] EXCEPT !.pc = "resolved", !.name = config.name,
                                  !.adapter = config.adapter, !.pending = config.pending]
<1>1. /\ tab' = [tab EXCEPT ![t] = page]
      /\ migrated' = (FlagOf(tab[t].deployment, migrated) \/
                      (tab[t].deployment.useIndexeddb /\ config = NewConfig))
  BY DEF Resolve, TypeOK
<1>2. tab[t] \in Page
  BY DEF TypeOK
<1>3. config.name \in Names /\ config.adapter \in Adapters /\ config.pending \in BOOLEAN
  BY <1>2, Configs, PageFields
<1> HIDE DEF config
<1>4. /\ page \in Page /\ page.pc = "resolved" /\ page.deployment = tab[t].deployment
      /\ page.listed = tab[t].listed /\ page.name = config.name
      /\ page.adapter = config.adapter /\ page.pending = config.pending
      /\ page.covered = tab[t].covered /\ page.reset = tab[t].reset
  BY <1>2, <1>3 DEF Page
<1> HIDE DEF page
<1>5. /\ tab' \in [Tabs -> Page] /\ \A s \in Tabs \ {t} : tab'[s] = tab[s]
      /\ tab'[t] = page
  BY <1>1, <1>4 DEF TypeOK
<1> USE DEF config
<1> QED
  BY <1>1, <1>4, <1>5

\* What a page keeps when it is opened and when it migrates
SamePage(t) ==
    /\ tab' \in [Tabs -> Page] /\ \A s \in Tabs \ {t} : tab'[s] = tab[s]
    /\ tab'[t].deployment = tab[t].deployment /\ tab'[t].listed = tab[t].listed
    /\ tab'[t].name = tab[t].name /\ tab'[t].adapter = tab[t].adapter
    /\ tab'[t].reset = tab[t].reset /\ (tab'[t].pending => tab[t].pending)

\* A page that is given another state and another set of covered changes
LEMMA MovedPage ==
  ASSUME TypeOK, NEW t \in Tabs, NEW covered \in SUBSET Changes, NEW pending \in BOOLEAN,
         NEW pc \in {"closed", "login", "listed", "resolved", "open", "asked",
                     "syncing", "destroying", "deleted", "cutOff", "unusable"},
         \/ tab' = [tab EXCEPT ![t].pc = pc] /\ covered = tab[t].covered
         \/ tab' = [tab EXCEPT ![t].covered = covered, ![t].pc = pc]
         \/ tab' = [tab EXCEPT ![t].pc = pc, ![t].covered = covered]
         \/ /\ tab' = [tab EXCEPT ![t].pending = pending, ![t].pc = pc] /\ covered = tab[t].covered
            /\ ~pending
  PROVE  SamePage(t) /\ tab'[t].pc = pc /\ tab'[t].covered = covered
<1>1. tab \in [Tabs -> Page] /\ tab[t] \in Page
  BY DEF TypeOK
<1>2. CASE tab' = [tab EXCEPT ![t].pc = pc] /\ covered = tab[t].covered
  <2> DEFINE page == [tab[t] EXCEPT !.pc = pc]
  <2>1. tab' = [tab EXCEPT ![t] = page]
    BY <1>1, <1>2
  <2>2. /\ page \in Page /\ page.pc = pc /\ page.deployment = tab[t].deployment
        /\ page.listed = tab[t].listed /\ page.name = tab[t].name
        /\ page.adapter = tab[t].adapter /\ page.covered = tab[t].covered
        /\ page.reset = tab[t].reset /\ page.pending = tab[t].pending
    BY <1>1 DEF Page
  <2> HIDE DEF page
  <2> QED
    BY <1>1, <1>2, <2>1, <2>2 DEF SamePage
<1>3. CASE \/ tab' = [tab EXCEPT ![t].covered = covered, ![t].pc = pc]
           \/ tab' = [tab EXCEPT ![t].pc = pc, ![t].covered = covered]
  <2> DEFINE page == [tab[t] EXCEPT !.pc = pc, !.covered = covered]
  <2>1. tab' = [tab EXCEPT ![t] = page]
    BY <1>1, <1>3 DEF Page
  <2>2. /\ page \in Page /\ page.pc = pc /\ page.deployment = tab[t].deployment
        /\ page.listed = tab[t].listed /\ page.name = tab[t].name
        /\ page.adapter = tab[t].adapter /\ page.covered = covered
        /\ page.reset = tab[t].reset /\ page.pending = tab[t].pending
    BY <1>1 DEF Page
  <2> HIDE DEF page
  <2> QED
    BY <1>1, <2>1, <2>2 DEF SamePage
<1>4. CASE /\ tab' = [tab EXCEPT ![t].pending = pending, ![t].pc = pc] /\ covered = tab[t].covered
           /\ ~pending
  <2> DEFINE page == [tab[t] EXCEPT !.pending = pending, !.pc = pc]
  <2>1. tab' = [tab EXCEPT ![t] = page]
    BY <1>1, <1>4
  <2>2. /\ page \in Page /\ page.pc = pc /\ page.deployment = tab[t].deployment
        /\ page.listed = tab[t].listed /\ page.name = tab[t].name
        /\ page.adapter = tab[t].adapter /\ page.covered = tab[t].covered
        /\ page.reset = tab[t].reset /\ page.pending = pending
    BY <1>1 DEF Page
  <2> HIDE DEF page
  <2> QED
    BY <1>1, <1>4, <2>1, <2>2 DEF SamePage
<1> QED
  BY <1>2, <1>3, <1>4

\* The steps that move a page on, and the states they lead from and to
LEMMA OpenedPage ==
  ASSUME TypeOK, NEW t \in Tabs, OpenDatabase(t)
  PROVE  /\ SamePage(t) /\ tab'[t].covered = tab[t].covered /\ tab[t].pc = "resolved"
         /\ IF dbs[tab[t].name].adapter \in {tab[t].adapter, "none"}
            THEN tab'[t].pc = "open" ELSE tab'[t].pc = "unusable"
<1>1. tab[t].covered \in SUBSET Changes /\ TRUE \in BOOLEAN
  BY PageFields DEF TypeOK
<1>2. CASE dbs[tab[t].name].adapter \in {tab[t].adapter, "none"}
  <2>1. tab' = [tab EXCEPT ![t].pc = "open"] /\ tab[t].pc = "resolved"
    BY <1>2 DEF OpenDatabase
  <2> QED
    BY <1>1, <1>2, <2>1, MovedPage
<1>3. CASE dbs[tab[t].name].adapter \notin {tab[t].adapter, "none"}
  <2>1. tab' = [tab EXCEPT ![t].pc = "unusable"] /\ tab[t].pc = "resolved"
    BY <1>3 DEF OpenDatabase
  <2> QED
    BY <1>1, <1>3, <2>1, MovedPage
<1> QED
  BY <1>2, <1>3

\* The user is asked, or the app is open in other tabs.
LEMMA OfferedPage ==
  ASSUME TypeOK, NEW t \in Tabs, OfferMigration(t)
  PROVE  /\ SamePage(t) /\ tab'[t].covered = tab[t].covered
         /\ tab[t].pc = "open" /\ tab'[t].pc \in {"open", "asked"}
<1>1. tab[t].covered \in SUBSET Changes /\ FALSE \in BOOLEAN
  BY PageFields DEF TypeOK
<1>2. PICK pc \in {"open", "asked"} : tab' = [tab EXCEPT ![t].pending = FALSE, ![t].pc = pc]
  BY DEF OfferMigration
<1> QED
  BY <1>1, <1>2, MovedPage DEF OfferMigration

\* The final sync starts, or the migration is postponed.
LEMMA ConfirmedPage ==
  ASSUME TypeOK, NEW t \in Tabs, Confirm(t)
  PROVE  /\ SamePage(t) /\ tab[t].pc = "asked" /\ tab'[t].pc \in {"open", "syncing"}
         /\ tab'[t].pc = "syncing" => tab'[t].covered = dbs[tab[t].name].changes
<1>1. tab[t] \in Page /\ tab[t].covered \in SUBSET Changes /\ TRUE \in BOOLEAN
  BY PageFields DEF TypeOK
<1>2. dbs[tab[t].name].changes \in SUBSET Changes
  BY <1>1, PageFields DEF TypeOK
<1>3. CASE tab' = [tab EXCEPT ![t].pc = "open"]
  <2>1. SamePage(t) /\ tab'[t].pc = "open"
    BY <1>1, <1>3, MovedPage
  <2> QED
    BY <2>1 DEF Confirm
<1>4. CASE tab' = [tab EXCEPT ![t].pc = "syncing", ![t].covered = dbs[tab[t].name].changes]
  <2>1. SamePage(t) /\ tab'[t].pc = "syncing" /\ tab'[t].covered = dbs[tab[t].name].changes
    BY <1>1, <1>2, <1>4, MovedPage
  <2> QED
    BY <2>1 DEF Confirm
<1> QED
  BY <1>3, <1>4 DEF Confirm

\* The final sync ends; the database is only deleted if no other tab is known.
LEMMA SyncedPage ==
  ASSUME TypeOK, NEW t \in Tabs, FinalSyncFails(t) \/ FinalSyncCompletes(t)
  PROVE  /\ SamePage(t) /\ tab[t].pc = "syncing" /\ tab'[t].pc \in {"open", "destroying"}
         /\ tab'[t].pc = "destroying" =>
               known[t] = {} /\ server' = server \cup (tab[t].covered \ denied)
<1>1. {} \in SUBSET Changes /\ TRUE \in BOOLEAN
  OBVIOUS
<1>2. CASE FinalSyncFails(t)
  <2>1. tab' = [tab EXCEPT ![t].pc = "open", ![t].covered = {}] /\ tab[t].pc = "syncing"
    BY <1>2 DEF FinalSyncFails
  <2>2. SamePage(t) /\ tab'[t].pc = "open"
    BY <1>1, <2>1, MovedPage
  <2> QED
    BY <2>1, <2>2
<1>3. CASE FinalSyncCompletes(t)
  <2> DEFINE pc == IF OpenInOtherTabs(t) THEN "open" ELSE "destroying"
  <2>1. tab' = [tab EXCEPT ![t].covered = {}, ![t].pc = pc] /\ tab[t].pc = "syncing"
    BY <1>3 DEF FinalSyncCompletes
  <2>2. pc \in {"open", "destroying"} /\ (pc = "destroying" => known[t] = {})
    BY DEF OpenInOtherTabs
  <2> HIDE DEF pc
  <2>3. SamePage(t) /\ tab'[t].pc = pc
    BY <1>1, <2>1, <2>2, MovedPage
  <2> QED
    BY <1>3, <2>1, <2>2, <2>3 DEF FinalSyncCompletes
<1> QED
  BY <1>2, <1>3

\* The steps that end a page
EndedPage(t) ==
    /\ tab' \in [Tabs -> Page] /\ tab'[t].pc = "closed"
    /\ tab'[t].name = "byId" /\ tab'[t].adapter = "indexeddb" /\ ~tab'[t].pending
    /\ tab'[t].listed = [n \in Names |-> "none"]

\* What is left of a page that ends
LEMMA Ended ==
  ASSUME TypeOK, NEW t \in Tabs, Ends(t) \/ MarkResetPending(t)
  PROVE  EndedPage(t) /\ \A s \in Tabs \ {t} : tab'[s] = tab[s]
<1>1. PICK reset \in BOOLEAN : tab' = [tab EXCEPT ![t] = [NoTab EXCEPT !.reset = reset]]
  <2>1. tab[t].reset \in BOOLEAN
    BY PageFields DEF TypeOK
  <2> QED
    BY <2>1 DEF Ends, MarkResetPending
<1> DEFINE page == [NoTab EXCEPT !.reset = reset]
<1>2. /\ page \in Page /\ page.pc = "closed" /\ page.name = "byId"
      /\ page.adapter = "indexeddb" /\ page.listed = [n \in Names |-> "none"] /\ ~page.pending
  BY ClosedPage
<1> HIDE DEF page
<1>3. tab' = [tab EXCEPT ![t] = page]
  BY <1>1 DEF page
<1> QED
  BY <1>2, <1>3 DEF TypeOK, EndedPage

\* The steps that cut off the other pages of a database
OthersCutOff(t, names) ==
    /\ tab' \in [Tabs -> Page]
    /\ \A s \in Tabs \ {t} :
          /\ tab'[s].pc = IF Open(s) /\ tab[s].name \in names THEN "cutOff" ELSE tab[s].pc
          /\ tab'[s].deployment = tab[s].deployment /\ tab'[s].listed = tab[s].listed
          /\ tab'[s].name = tab[s].name /\ tab'[s].adapter = tab[s].adapter
          /\ tab'[s].covered = tab[s].covered /\ tab'[s].reset = tab[s].reset
          /\ tab'[s].pending = tab[s].pending

\* Whatever becomes of the tab itself, the others are only cut off.
LEMMA CutOffEffect ==
  ASSUME TypeOK, NEW t \in Tabs, NEW names, NEW page \in Page,
         tab' = [CutOff(t, names) EXCEPT ![t] = page]
  PROVE  OthersCutOff(t, names) /\ tab'[t] = page
<1> DEFINE pages == CutOff(t, names)
<1>1. /\ pages \in [Tabs -> Page]
      /\ \A s \in Tabs :
               /\ pages[s].pc = IF s # t /\ Open(s) /\ tab[s].name \in names
                                THEN "cutOff" ELSE tab[s].pc
               /\ pages[s].deployment = tab[s].deployment /\ pages[s].listed = tab[s].listed
               /\ pages[s].name = tab[s].name /\ pages[s].adapter = tab[s].adapter
               /\ pages[s].covered = tab[s].covered /\ pages[s].reset = tab[s].reset
               /\ pages[s].pending = tab[s].pending
  BY CutOffPages
<1> HIDE DEF pages
<1>2. tab' = [pages EXCEPT ![t] = page]
  BY DEF pages
<1> QED
  BY <1>1, <1>2 DEF OthersCutOff

\* The legacy database is deleted.
LEMMA DeletedPage ==
  ASSUME TypeOK, NEW t \in Tabs, DeleteLegacyDb(t)
  PROVE  /\ OthersCutOff(t, {tab[t].name}) /\ tab[t].pc = "destroying" /\ tab'[t].pc = "deleted"
         /\ tab'[t].deployment = tab[t].deployment /\ tab'[t].listed = tab[t].listed
         /\ tab'[t].name = tab[t].name /\ tab'[t].adapter = tab[t].adapter
         /\ tab'[t].covered = tab[t].covered /\ tab'[t].reset = tab[t].reset
         /\ tab'[t].pending = tab[t].pending
<1> DEFINE pages == CutOff(t, {tab[t].name})
           page == [tab[t] EXCEPT !.pc = "deleted"]
<1>1. pages \in [Tabs -> Page] /\ pages[t] = tab[t] /\ tab[t] \in Page
  BY CutOffPages DEF TypeOK
<1>2. /\ page \in Page /\ page.pc = "deleted" /\ page.deployment = tab[t].deployment
      /\ page.listed = tab[t].listed /\ page.name = tab[t].name
      /\ page.adapter = tab[t].adapter /\ page.covered = tab[t].covered
      /\ page.reset = tab[t].reset /\ page.pending = tab[t].pending
  BY <1>1 DEF Page
<1>3. tab' = [pages EXCEPT ![t].pc = "deleted"]
  BY DEF DeleteLegacyDb
<1> HIDE DEF pages
<1>4. tab' = [pages EXCEPT ![t] = page]
  BY <1>1, <1>3
<1> HIDE DEF page
<1> USE DEF pages
<1>5. OthersCutOff(t, {tab[t].name}) /\ tab'[t] = page
  BY <1>2, <1>4, CutOffEffect
<1> QED
  BY <1>2, <1>5 DEF DeleteLegacyDb

\* The deletion fails, and the page ends.
LEMMA UndeletedPage ==
  ASSUME TypeOK, NEW t \in Tabs, NEW names, NEW reset \in BOOLEAN,
         tab' = [CutOff(t, names) EXCEPT ![t] = [NoTab EXCEPT !.reset = reset]]
  PROVE  OthersCutOff(t, names) /\ EndedPage(t)
<1> DEFINE page == [NoTab EXCEPT !.reset = reset]
<1>1. /\ page \in Page /\ page.pc = "closed" /\ page.name = "byId"
      /\ page.adapter = "indexeddb" /\ page.listed = [n \in Names |-> "none"] /\ ~page.pending
  BY ClosedPage
<1> HIDE DEF page
<1>2. tab' = [CutOff(t, names) EXCEPT ![t] = page]
  BY DEF page
<1>3. OthersCutOff(t, names) /\ tab'[t] = page
  <2>1. page \in Page
    BY <1>1
  <2>2. \A p \in Page : tab' = [CutOff(t, names) EXCEPT ![t] = p]
                          => OthersCutOff(t, names) /\ tab'[t] = p
    BY CutOffEffect
  <2> QED
    BY <1>2, <2>1, <2>2
<1> QED
  BY <1>1, <1>3 DEF EndedPage, OthersCutOff

\* A page is loaded, after a pending reset.
LEMMA LoadedPage ==
  ASSUME TypeOK, NEW t \in Tabs, Load(t)
  PROVE  /\ OthersCutOff(t, IF tab[t].reset THEN Names ELSE {})
         /\ tab[t].pc = "closed" /\ tab'[t].pc = "login" /\ tab'[t].deployment = deployment
         /\ tab'[t].name = "byId" /\ tab'[t].adapter = "indexeddb"
         /\ tab'[t].listed = [n \in Names |-> "none"] /\ ~tab'[t].pending
<1> DEFINE page == [NoTab EXCEPT !.pc = "login", !.deployment = deployment]
           names == IF tab[t].reset THEN Names ELSE {}
<1>1. NoTab \in Page /\ deployment \in Deployment
  BY DEF TypeOK, NoTab, Page, Deployment, Names, Adapters
<1>2. /\ page \in Page /\ page.pc = "login" /\ page.name = "byId" /\ page.deployment = deployment
      /\ page.adapter = "indexeddb" /\ page.listed = [n \in Names |-> "none"] /\ ~page.pending
  BY <1>1 DEF Page, NoTab
<1>3. tab' = [CutOff(t, names) EXCEPT ![t] = page] /\ tab[t].pc = "closed"
  BY DEF Load, Alive
<1> HIDE DEF page
<1> QED
  BY <1>2, <1>3, CutOffEffect


-----------------------------------------------------------------------------
(***************************************************************************)
(* The channel: every step of a tab only adds messages of its own to the   *)
(* inboxes of the others.                                                  *)
(***************************************************************************)
Messages == {"hello", "ping", "goodbye", "reload"} \X Tabs
Elements(s) == {s[i] : i \in DOMAIN s}

\* What a message more, and one less, does to a sequence of them
LEMMA AppendElements ==
  ASSUME NEW S, NEW s \in Seq(S), NEW e \in S
  PROVE  Append(s, e) \in Seq(S) /\ Elements(Append(s, e)) = Elements(s) \cup {e}
<1>1. /\ Append(s, e) \in Seq(S) /\ Len(Append(s, e)) = Len(s) + 1 /\ Len(s) \in Nat
      /\ \A i \in 1..Len(s) : Append(s, e)[i] = s[i]
      /\ Append(s, e)[Len(s) + 1] = e
  OBVIOUS
<1>2. DOMAIN Append(s, e) = 1..(Len(s) + 1) /\ DOMAIN s = 1..Len(s)
  BY <1>1
<1>3. 1..(Len(s) + 1) = 1..Len(s) \cup {Len(s) + 1}
  BY <1>1
<1> QED
  BY <1>1, <1>2, <1>3 DEF Elements

\* The first message is received, the others stay.
LEMMA TailElements ==
  ASSUME NEW S, NEW s \in Seq(S), s # <<>>
  PROVE  /\ Head(s) \in S /\ Tail(s) \in Seq(S)
         /\ Elements(s) = Elements(Tail(s)) \cup {Head(s)}
<1>1. /\ Tail(s) \in Seq(S) /\ Len(s) \in Nat \ {0} /\ Len(Tail(s)) = Len(s) - 1
      /\ \A i \in 1..(Len(s) - 1) : Tail(s)[i] = s[i + 1]
      /\ Head(s) = s[1] /\ Head(s) \in S
  OBVIOUS
<1>2. DOMAIN Tail(s) = 1..(Len(s) - 1) /\ DOMAIN s = 1..Len(s)
  BY <1>1
<1>3. ASSUME NEW i \in 1..Len(s) PROVE s[i] \in Elements(Tail(s)) \cup {Head(s)}
  <2>1. CASE i = 1
    BY <1>1, <2>1
  <2>2. CASE i # 1
    <3>1. i - 1 \in DOMAIN Tail(s) /\ Tail(s)[i - 1] = s[i]
      BY <1>1, <1>2, <2>2
    <3> QED
      BY <3>1 DEF Elements
  <2> QED
    BY <2>1, <2>2
<1>4. ASSUME NEW i \in DOMAIN Tail(s) PROVE Tail(s)[i] \in Elements(s)
  <2>1. i + 1 \in DOMAIN s /\ Tail(s)[i] = s[i + 1]
    BY <1>1, <1>2
  <2> QED
    BY <2>1 DEF Elements
<1>5. Head(s) \in Elements(s)
  BY <1>1, <1>2 DEF Elements
<1> QED
  BY <1>1, <1>2, <1>3, <1>4, <1>5 DEF Elements

\* The messages in a tab's inbox come from others.
InboxTyped ==
    /\ inbox \in [Tabs -> Seq(Messages)]
    /\ \A t \in Tabs : \A m \in Elements(inbox[t]) : m \in Messages /\ m[2] # t

\* That follows from the type invariant.
LEMMA TypedInbox ==
  ASSUME TypeOK
  PROVE  InboxTyped
<1>1. inbox \in [Tabs -> Seq(Messages)]
  BY DEF TypeOK, Messages
<1>2. ASSUME NEW t \in Tabs, NEW i \in DOMAIN inbox[t] PROVE inbox[t][i] \in Messages /\ inbox[t][i][2] # t
  <2>1. inbox[t] \in Seq(Messages) /\ inbox[t][i][2] # t
    BY <1>1 DEF TypeOK
  <2> QED
    BY <2>1
<1> QED
  BY <1>1, <1>2 DEF InboxTyped, Elements

\* Messages of a tab are added to the inboxes of others, none is taken away there.
MailFrom(t) ==
    /\ InboxTyped'
    /\ \A s \in Tabs \ {t} :
          /\ Elements(inbox[s]) \subseteq Elements(inbox'[s])
          /\ \A m \in Elements(inbox'[s]) : m \in Elements(inbox[s]) \/ m[2] = t

\* A message to all other tabs, with which a page starts or ends
LEMMA PostMail ==
  ASSUME TypeOK, NEW t \in Tabs, NEW type \in {"hello", "ping", "goodbye", "reload"},
         inbox' = [Post(t, type) EXCEPT ![t] = <<>>]
  PROVE  MailFrom(t) /\ inbox'[t] = <<>>
<1>1. InboxTyped
  BY TypedInbox
<1>2. <<type, t>> \in Messages /\ <<type, t>>[2] = t
  BY DEF Messages
<1> DEFINE m == <<type, t>>
           more(s) == IF s # t /\ Alive(s) THEN Append(inbox[s], m) ELSE inbox[s]
<1>3. \A s \in Tabs : inbox[s] \in Seq(Messages)
  BY <1>1 DEF InboxTyped
<1>4. inbox' = [s \in Tabs |-> IF s = t THEN <<>> ELSE more(s)]
  BY DEF Post
<1> HIDE DEF m
<1>5. \A s \in Tabs : /\ more(s) \in Seq(Messages)
                      /\ Elements(inbox[s]) \subseteq Elements(more(s))
                      /\ Elements(more(s)) \subseteq Elements(inbox[s]) \cup {m}
  BY <1>2, <1>3, AppendElements DEF m
<1> HIDE DEF more
<1>6. <<>> \in Seq(Messages) /\ Elements(<<>>) = {}
  BY DEF Elements
<1>7. inbox' \in [Tabs -> Seq(Messages)]
  BY <1>4, <1>5, <1>6
<1>8. \A s \in Tabs : inbox'[s] = IF s = t THEN <<>> ELSE more(s)
  BY <1>4
<1>9. m \in Messages /\ m[2] = t
  BY <1>2 DEF m
<1>10. \A s \in Tabs \ {t} :
          /\ Elements(inbox[s]) \subseteq Elements(inbox'[s])
          /\ \A k \in Elements(inbox'[s]) : k \in Elements(inbox[s]) \/ k = m
  BY <1>5, <1>8
<1>11. InboxTyped'
  <2> SUFFICES ASSUME NEW s \in Tabs, NEW k \in Elements(inbox'[s]) PROVE k \in Messages /\ k[2] # s
    BY <1>7 DEF InboxTyped
  <2>1. CASE s = t
    BY <1>6, <1>8, <2>1
  <2>2. CASE s # t
    BY <1>1, <1>9, <1>10, <2>2 DEF InboxTyped
  <2> QED
    BY <2>1, <2>2
<1> QED
  BY <1>8, <1>9, <1>10, <1>11 DEF MailFrom

\* A page that ends without a goodbye
LEMMA SilentMail ==
  ASSUME TypeOK, NEW t \in Tabs, inbox' = [inbox EXCEPT ![t] = <<>>] \/ inbox' = inbox
  PROVE  MailFrom(t)
<1>1. InboxTyped
  BY TypedInbox
<1>2. <<>> \in Seq(Messages) /\ Elements(<<>>) = {}
  BY DEF Elements
<1>3. /\ inbox' \in [Tabs -> Seq(Messages)]
      /\ \A s \in Tabs \ {t} : inbox'[s] = inbox[s]
      /\ inbox'[t] \in {<<>>, inbox[t]}
  BY <1>1, <1>2 DEF InboxTyped
<1> QED
  BY <1>1, <1>2, <1>3 DEF InboxTyped, MailFrom

\* The tabs are told to reload.
LEMMA FinishMail ==
  ASSUME TypeOK, NEW t \in Tabs, FinishMigration(t)
  PROVE  /\ MailFrom(t) /\ inbox'[t] = <<>>
         /\ \A s \in Tabs \ {t} : Alive(s) => <<"reload", t>> \in Elements(inbox'[s])
<1>1. InboxTyped
  BY TypedInbox
<1> DEFINE reload == <<"reload", t>>
           goodbye == <<"goodbye", t>>
           more(s) == IF Alive(s) THEN Append(Append(inbox[s], reload), goodbye) ELSE inbox[s]
<1>2. reload \in Messages /\ goodbye \in Messages /\ reload[2] = t /\ goodbye[2] = t
  BY DEF Messages
<1>3. \A s \in Tabs : inbox[s] \in Seq(Messages)
  BY <1>1 DEF InboxTyped
<1>4. inbox' = [s \in Tabs |-> IF s = t THEN <<>> ELSE more(s)]
  <2>1. \A s \in Tabs : inbox[s] \o <<reload, goodbye>> = Append(Append(inbox[s], reload), goodbye)
    <3> HIDE DEF reload, goodbye
    <3> QED
      BY <1>2, <1>3
  <2> QED
    BY <2>1 DEF FinishMigration
<1> HIDE DEF reload, goodbye
<1>5. ASSUME NEW s \in Tabs
      PROVE  /\ more(s) \in Seq(Messages)
             /\ Elements(inbox[s]) \subseteq Elements(more(s))
             /\ Elements(more(s)) \subseteq Elements(inbox[s]) \cup {reload, goodbye}
             /\ Alive(s) => reload \in Elements(more(s))
  <2>1. /\ Append(inbox[s], reload) \in Seq(Messages)
        /\ Elements(Append(inbox[s], reload)) = Elements(inbox[s]) \cup {reload}
    BY <1>2, <1>3, AppendElements
  <2>2. /\ Append(Append(inbox[s], reload), goodbye) \in Seq(Messages)
        /\ Elements(Append(Append(inbox[s], reload), goodbye)) =
              Elements(inbox[s]) \cup {reload, goodbye}
    <3> DEFINE told == Append(inbox[s], reload)
    <3>1. told \in Seq(Messages) /\ Elements(told) = Elements(inbox[s]) \cup {reload}
      BY <2>1
    <3> HIDE DEF told
    <3>2. /\ Append(told, goodbye) \in Seq(Messages)
          /\ Elements(Append(told, goodbye)) = Elements(told) \cup {goodbye}
      BY <1>2, <3>1, AppendElements
    <3>3. /\ Append(told, goodbye) \in Seq(Messages)
          /\ Elements(Append(told, goodbye)) = Elements(inbox[s]) \cup {reload, goodbye}
      BY <3>1, <3>2
    <3> QED
      BY <3>3 DEF told
  <2> QED
    BY <1>3, <2>2
<1> HIDE DEF more
<1>6. <<>> \in Seq(Messages) /\ Elements(<<>>) = {}
  BY DEF Elements
<1>7. inbox' \in [Tabs -> Seq(Messages)]
  BY <1>4, <1>5, <1>6
<1>8. \A s \in Tabs : inbox'[s] = IF s = t THEN <<>> ELSE more(s)
  BY <1>4
<1>10. \A s \in Tabs \ {t} :
          /\ Elements(inbox[s]) \subseteq Elements(inbox'[s])
          /\ \A k \in Elements(inbox'[s]) : k \in Elements(inbox[s]) \/ k \in {reload, goodbye}
  BY <1>5, <1>8
<1>11. InboxTyped'
  <2> SUFFICES ASSUME NEW s \in Tabs, NEW k \in Elements(inbox'[s]) PROVE k \in Messages /\ k[2] # s
    BY <1>7 DEF InboxTyped
  <2>1. CASE s = t
    BY <1>6, <1>8, <2>1
  <2>2. CASE s # t
    BY <1>1, <1>2, <1>10, <2>2 DEF InboxTyped
  <2> QED
    BY <2>1, <2>2
<1>12. \A s \in Tabs \ {t} : Alive(s) => reload \in Elements(inbox'[s])
  BY <1>5, <1>8
<1> QED
  BY <1>2, <1>8, <1>10, <1>11, <1>12 DEF MailFrom, reload

\* A message is received: it leaves the inbox, and may be answered.
LEMMA ReceiveMail ==
  ASSUME TypeOK, NEW t \in Tabs, Receive(t)
  PROVE  /\ MailFrom(t)
         /\ \/ Leaves(t)
            \/ /\ UNCHANGED <<tab, exposed>>
               /\ \A m \in Elements(inbox'[t]) : m \in Elements(inbox[t])
               /\ \A m \in Elements(inbox[t]) : m[1] = "reload" => m \in Elements(inbox'[t])
               /\ \A s \in known[t] : s \in known'[t] \/ <<"goodbye", s>> \in Elements(inbox[t])
               /\ \A s \in Tabs \ {t} :
                     /\ known'[s] = known[s]
                     /\ \A m \in Elements(inbox'[s]) : m \in Elements(inbox[s]) \/ m = <<"ping", t>>
               /\ known' \in [Tabs -> SUBSET Tabs] /\ t \notin known'[t]
<1> DEFINE head == Head(inbox[t])
           type == head[1]
           from == head[2]
           tail == Tail(inbox[t])
           rest == [inbox EXCEPT ![t] = tail]
<1>1. InboxTyped
  BY TypedInbox
<1>2. inbox[t] \in Seq(Messages) /\ inbox[t] # <<>>
  BY <1>1 DEF InboxTyped, Receive
<1>3. /\ head \in Messages /\ tail \in Seq(Messages)
      /\ Elements(inbox[t]) = Elements(tail) \cup {head}
  BY <1>2, TailElements
<1>4. /\ from \in Tabs /\ from # t /\ head = <<type, from>>
      /\ type \in {"hello", "ping", "goodbye", "reload"}
  BY <1>1, <1>3 DEF InboxTyped, Messages
<1>5. \/ type = "reload" /\ Leaves(t)
      \/ /\ UNCHANGED <<tab, exposed>> /\ type # "reload"
         /\ \/ /\ known' = [known EXCEPT ![t] = known[t] \cup {from}]
               /\ inbox' = rest \/ inbox' = [rest EXCEPT ![from] = Append(rest[from], <<"ping", t>>)]
            \/ /\ type = "goodbye" /\ known' = [known EXCEPT ![t] = known[t] \ {from}]
               /\ inbox' = rest
  <2>1. Receive(t)
    OBVIOUS
  <2> HIDE DEF rest, tail
  <2> QED
    BY <2>1 DEF Receive, rest, tail
<1>6. CASE type = "reload" /\ Leaves(t)
  BY <1>6, PostMail DEF Leaves
<1>7. CASE UNCHANGED <<tab, exposed>> /\ type # "reload"
  <2> HIDE DEF head, type, from, tail, rest
  <2>1. /\ rest \in [Tabs -> Seq(Messages)] /\ rest[t] = tail
        /\ \A s \in Tabs \ {t} : rest[s] = inbox[s]
    BY <1>1, <1>3 DEF InboxTyped, rest
  <2>2. <<"ping", t>> \in Messages /\ <<"ping", t>>[2] = t
    BY DEF Messages
  <2>3. /\ inbox' \in [Tabs -> Seq(Messages)] /\ inbox'[t] = tail
        /\ \A s \in Tabs \ {t} :
              /\ Elements(inbox[s]) \subseteq Elements(inbox'[s])
              /\ \A m \in Elements(inbox'[s]) : m \in Elements(inbox[s]) \/ m = <<"ping", t>>
    <3>1. CASE inbox' = rest
      BY <2>1, <3>1
    <3>2. CASE inbox' = [rest EXCEPT ![from] = Append(rest[from], <<"ping", t>>)]
      <4> DEFINE ping == <<"ping", t>>
                 more == Append(rest[from], ping)
      <4>1. ping \in Messages /\ rest[from] \in Seq(Messages)
        BY <1>4, <2>1, <2>2
      <4> HIDE DEF ping
      <4>2. more \in Seq(Messages) /\ Elements(more) = Elements(rest[from]) \cup {ping}
        BY <4>1, AppendElements
      <4>3. inbox' = [rest EXCEPT ![from] = more]
        BY <3>2 DEF ping
      <4> HIDE DEF more
      <4>4. /\ inbox' \in [Tabs -> Seq(Messages)] /\ inbox'[t] = tail
            /\ \A s \in Tabs \ {t} : inbox'[s] = IF s = from THEN more ELSE inbox[s]
        BY <1>4, <2>1, <4>2, <4>3
      <4>5. rest[from] = inbox[from]
        BY <1>4, <2>1
      <4> QED
        BY <4>2, <4>4, <4>5 DEF ping
    <3> QED
      BY <1>5, <1>7, <3>1, <3>2
  <2>4. InboxTyped'
    <3> SUFFICES ASSUME NEW s \in Tabs, NEW k \in Elements(inbox'[s]) PROVE k \in Messages /\ k[2] # s
      BY <2>3 DEF InboxTyped
    <3>1. CASE s = t
      BY <1>1, <1>3, <2>3, <3>1 DEF InboxTyped
    <3>2. CASE s # t
      BY <1>1, <2>2, <2>3, <3>2 DEF InboxTyped
    <3> QED
      BY <3>1, <3>2
  <2>5. MailFrom(t)
    BY <2>2, <2>3, <2>4 DEF MailFrom
  <2>6. \A m \in Elements(inbox'[t]) : m \in Elements(inbox[t])
    BY <1>3, <2>3
  <2>7. \A m \in Elements(inbox[t]) : m[1] = "reload" => m \in Elements(inbox'[t])
    BY <1>3, <1>7, <2>3 DEF type
  <2>8. /\ \A s \in known[t] : s \in known'[t] \/ <<"goodbye", s>> \in Elements(inbox[t])
        /\ \A s \in Tabs \ {t} : known'[s] = known[s]
        /\ known' \in [Tabs -> SUBSET Tabs] /\ t \notin known'[t]
    <3>1. known \in [Tabs -> SUBSET Tabs] /\ t \notin known[t]
      BY DEF TypeOK
    <3>2. CASE known' = [known EXCEPT ![t] = known[t] \cup {from}]
      BY <1>4, <3>1, <3>2
    <3>3. CASE type = "goodbye" /\ known' = [known EXCEPT ![t] = known[t] \ {from}]
      <4>1. <<"goodbye", from>> \in Elements(inbox[t])
        BY <1>3, <1>4, <3>3
      <4> QED
        BY <3>1, <3>3, <4>1
    <3> QED
      BY <1>5, <1>7, <3>2, <3>3
  <2> QED
    BY <1>7, <2>3, <2>5, <2>6, <2>7, <2>8
<1> QED
  BY <1>5, <1>6, <1>7


\* A ping is one message more for another tab.
LEMMA PingMail ==
  ASSUME TypeOK, NEW t \in Tabs, Ping(t)
  PROVE  /\ MailFrom(t) /\ inbox'[t] = inbox[t]
         /\ UNCHANGED <<deviceVars, tab, known, envVars, historyVars>>
         /\ \A s \in Tabs \ {t} :
               \A m \in Elements(inbox'[s]) : m \in Elements(inbox[s]) \/ m = <<"ping", t>>
<1> DEFINE ping == <<"ping", t>>
           more(s) == Append(inbox[s], ping)
<1>1. InboxTyped
  BY TypedInbox
<1>2. PICK s \in Tabs \ {t} : inbox' = [inbox EXCEPT ![s] = Append(inbox[s], <<"ping", t>>)]
  BY DEF Ping
<1>3. inbox' = [inbox EXCEPT ![s] = more(s)]
  BY <1>2
<1>4. ping \in Messages /\ ping[2] = t
  BY DEF Messages
<1>5. inbox \in [Tabs -> Seq(Messages)]
  BY <1>1 DEF InboxTyped
<1> HIDE DEF ping
<1>6. more(s) \in Seq(Messages) /\ Elements(more(s)) = Elements(inbox[s]) \cup {ping}
  BY <1>4, <1>5, AppendElements
<1> HIDE DEF more
<1>7. /\ inbox' \in [Tabs -> Seq(Messages)]
      /\ \A x \in Tabs : inbox'[x] = IF x = s THEN more(s) ELSE inbox[x]
  BY <1>3, <1>5, <1>6
<1>8. \A x \in Tabs \ {t} :
        /\ Elements(inbox[x]) \subseteq Elements(inbox'[x])
        /\ \A m \in Elements(inbox'[x]) : m \in Elements(inbox[x]) \/ m = ping
  BY <1>6, <1>7
<1>9. InboxTyped'
  <2> SUFFICES ASSUME NEW x \in Tabs, NEW k \in Elements(inbox'[x]) PROVE k \in Messages /\ k[2] # x
    BY <1>7 DEF InboxTyped
  <2>1. CASE x = t
    BY <1>1, <1>7, <2>1 DEF InboxTyped
  <2>2. CASE x # t
    BY <1>1, <1>4, <1>8, <2>2 DEF InboxTyped
  <2> QED
    BY <2>1, <2>2
<1>10. UNCHANGED <<deviceVars, tab, known, envVars, historyVars>>
  BY DEF Ping
<1>11. MailFrom(t)
  BY <1>4, <1>8, <1>9 DEF MailFrom
<1>12. inbox'[t] = inbox[t]
  BY <1>2, <1>7
<1> QED
  BY <1>8, <1>10, <1>11, <1>12 DEF ping

-----------------------------------------------------------------------------
(***************************************************************************)
(* TypeOK                                                                  *)
(***************************************************************************)

\* What a tab does
TabStep(t) ==
    \/ Receive(t) \/ Ping(t) \/ RemoveStaleTabs(t)
    \/ Load(t) \/ Close(t) \/ FindExistingDbs(t) \/ Resolve(t) \/ OpenDatabase(t)
    \/ Edit(t) \/ Sync(t) \/ Migrate(t) \/ MarkResetPending(t)

\* Every step of a tab only adds messages of its own.
LEMMA TabMail ==
  ASSUME TypeOK, NEW t \in Tabs, TabStep(t)
  PROVE  MailFrom(t)
<1>1. CASE Receive(t)
  BY <1>1, ReceiveMail
<1>2. CASE Load(t)
  BY <1>2, PostMail DEF Load
<1>3. CASE Close(t)
  BY <1>3, PostMail, SilentMail DEF Close, Leaves
<1>4. CASE DeletionFails(t) \/ MarkResetPending(t)
  BY <1>4, PostMail DEF DeletionFails, MarkResetPending
<1>5. CASE FinishMigration(t)
  BY <1>5, FinishMail
<1>7. CASE Ping(t)
  BY <1>7, PingMail
<1>6. CASE \/ RemoveStaleTabs(t) \/ FindExistingDbs(t) \/ Resolve(t) \/ OpenDatabase(t)
           \/ Edit(t) \/ Sync(t) \/ OfferMigration(t) \/ Confirm(t) \/ FinalSyncFails(t)
           \/ FinalSyncCompletes(t) \/ DeleteLegacyDb(t)
  <2>1. inbox' = inbox
    BY <1>6 DEF RemoveStaleTabs, FindExistingDbs, Resolve, OpenDatabase, Edit, Sync,
                OfferMigration, Confirm, FinalSyncFails, FinalSyncCompletes, DeleteLegacyDb,
                channelVars
  <2> QED
    BY <2>1, SilentMail
<1> QED
  BY <1>1, <1>2, <1>3, <1>4, <1>5, <1>6, <1>7 DEF TabStep, Migrate

\* The parts of the type invariant
DbsTyped == dbs \in [Names -> [adapter : Adapters \cup {"none"}, changes : SUBSET Changes]]
KnownTyped == known \in [Tabs -> SUBSET Tabs] /\ \A t \in Tabs : t \notin known[t]
CountersTyped ==
    /\ edits \in 0..MaxEdits /\ loads \in 0..MaxLoads
    /\ toggles \in 0..MaxToggles /\ resets \in 0..MaxResets
FlagsTyped ==
    migrated \in BOOLEAN /\ deployment \in Deployment /\ unannounced \in BOOLEAN /\ named \in BOOLEAN
SetsTyped ==
    /\ server \subseteq Changes /\ denied \subseteq Changes /\ exposed \subseteq Changes
    /\ given \subseteq Changes /\ recreated \subseteq Names

\* Together they are the type invariant.
LEMMA TypeParts ==
  TypeOK <=> /\ DbsTyped /\ tab \in [Tabs -> Page] /\ KnownTyped /\ CountersTyped
             /\ FlagsTyped /\ SetsTyped
             /\ inbox \in [Tabs -> Seq(Messages)]
             /\ \A t \in Tabs : \A i \in DOMAIN inbox[t] : inbox[t][i][2] # t
  BY DEF TypeOK, DbsTyped, KnownTyped, CountersTyped, FlagsTyped, SetsTyped, Messages

\* A well-typed step of a tab
LEMMA StepTyped ==
  ASSUME TypeOK, NEW t \in Tabs, TabStep(t), DbsTyped', tab' \in [Tabs -> Page], KnownTyped',
         CountersTyped', FlagsTyped', SetsTyped'
  PROVE  TypeOK'
<1>1. InboxTyped'
  BY TabMail DEF MailFrom
<1>2. /\ inbox' \in [Tabs -> Seq(Messages)]
      /\ \A s \in Tabs : \A i \in DOMAIN inbox'[s] : inbox'[s][i][2] # s
  BY <1>1 DEF InboxTyped, Elements
<1> QED
  BY <1>2 DEF TypeOK, DbsTyped, KnownTyped, CountersTyped, FlagsTyped, SetsTyped, Messages

\* The changes in a database, and those that a page which ends leaves behind
LEMMA ChangesTyped ==
  ASSUME TypeOK
  PROVE  /\ \A n \in Names : dbs[n].changes \subseteq Changes /\ dbs[n].adapter \in Adapters \cup {"none"}
         /\ \A t \in Tabs : exposed \subseteq LeftBehind(t) /\ LeftBehind(t) \subseteq Changes
<1>1. \A n \in Names : dbs[n].changes \subseteq Changes /\ dbs[n].adapter \in Adapters \cup {"none"}
  BY DEF TypeOK
<1>2. \A s \in Tabs : tab[s].name \in Names
  BY PageFields DEF TypeOK
<1>3. \A s \in Tabs : dbs[tab[s].name].changes \subseteq Changes
  BY <1>1, <1>2
<1> QED
  BY <1>1, <1>3 DEF LeftBehind, TypeOK

\* A database without content is well typed.
LEMMA DbsCleared ==
  ASSUME TypeOK, NEW names, dbs' = [n \in Names |-> IF n \in names THEN NoDb ELSE dbs[n]]
  PROVE  DbsTyped'
  BY DEF DbsTyped, NoDb, TypeOK

\* A page that ends, receives a message or forgets another one keeps the types.
LEMMA EndTyped ==
  ASSUME TypeOK, NEW t \in Tabs, Receive(t) \/ Ping(t) \/ RemoveStaleTabs(t) \/ Close(t)
                                 \/ FinishMigration(t) \/ MarkResetPending(t)
  PROVE  TypeOK'
<1>1. CASE Receive(t) /\ ~Leaves(t)
  <2>1. UNCHANGED <<tab, exposed>> /\ KnownTyped'
    BY <1>1, ReceiveMail DEF TypeOK, KnownTyped
  <2>2. DbsTyped' /\ tab' \in [Tabs -> Page] /\ CountersTyped' /\ SetsTyped'
    BY <1>1, <2>1 DEF Receive, TypeOK, DbsTyped, CountersTyped, SetsTyped, deviceVars, envVars
  <2>3. FlagsTyped'
    BY <1>1 DEF Receive, TypeOK, FlagsTyped, deviceVars, envVars
  <2> QED
    BY <1>1, <2>1, <2>2, <2>3, StepTyped DEF TabStep
<1>2. CASE RemoveStaleTabs(t)
  <2>1. KnownTyped'
    BY <1>2 DEF RemoveStaleTabs, KnownTyped, TypeOK
  <2>2. UNCHANGED <<dbs, migrated, tab, inbox, deployment, server, loads, toggles, resets,
                    edits, denied, given, recreated, named, unannounced>>
    BY <1>2 DEF RemoveStaleTabs, deviceVars, envVars
  <2>3. exposed' \subseteq Changes
    <3>1. tab[t].name \in Names
      BY PageFields DEF TypeOK
    <3>2. dbs[tab[t].name].changes \subseteq Changes /\ exposed \subseteq Changes
      BY <3>1, ChangesTyped DEF TypeOK
    <3> QED
      BY <1>2, <3>2 DEF RemoveStaleTabs
  <2> QED
    BY <2>1, <2>2, <2>3 DEF TypeOK, KnownTyped
<1>3. CASE (Receive(t) /\ Leaves(t)) \/ Close(t) \/ FinishMigration(t)
  <2>1. Ends(t)
    BY <1>3 DEF Leaves, Close, FinishMigration
  <2>2. tab' \in [Tabs -> Page]
    BY <2>1, Ended DEF EndedPage
  <2>3. KnownTyped' /\ exposed' \subseteq Changes
    BY <2>1, ChangesTyped DEF Ends, KnownTyped, TypeOK
  <2>4. DbsTyped' /\ CountersTyped' /\ SetsTyped'
    BY <1>3, <2>3 DEF Receive, Close, FinishMigration, TypeOK, DbsTyped, CountersTyped, SetsTyped,
                      deviceVars, envVars
  <2>5. FlagsTyped'
    BY <1>3 DEF Receive, Close, FinishMigration, TypeOK, FlagsTyped, deviceVars, envVars
  <2> QED
    BY <1>3, <2>2, <2>3, <2>4, <2>5, StepTyped DEF TabStep, Migrate
<1>4. CASE MarkResetPending(t)
  <2>1. tab' \in [Tabs -> Page]
    BY <1>4, Ended DEF EndedPage
  <2>2. KnownTyped' /\ exposed' \subseteq Changes
    BY <1>4, ChangesTyped DEF MarkResetPending, KnownTyped, TypeOK
  <2>3. resets' \in 0..MaxResets
    BY <1>4, BoundsAssumption DEF MarkResetPending, TypeOK
  <2>4. DbsTyped' /\ CountersTyped' /\ SetsTyped' /\ FlagsTyped'
    BY <1>4, <2>2, <2>3 DEF MarkResetPending, TypeOK, DbsTyped, CountersTyped, SetsTyped, FlagsTyped
  <2> QED
    BY <1>4, <2>1, <2>2, <2>4, StepTyped DEF TabStep
<1>5. CASE Ping(t)
  <2>1. UNCHANGED <<dbs, migrated, tab, known, deployment, server, loads, toggles, resets,
                    edits, denied, exposed, given, recreated, named, unannounced>>
    BY <1>5, PingMail DEF deviceVars, envVars, historyVars
  <2>2. DbsTyped' /\ tab' \in [Tabs -> Page] /\ KnownTyped' /\ CountersTyped' /\ SetsTyped'
    BY <2>1 DEF TypeOK, DbsTyped, KnownTyped, CountersTyped, SetsTyped
  <2>3. FlagsTyped'
    BY <2>1 DEF TypeOK, FlagsTyped
  <2> QED
    BY <1>5, <2>2, <2>3, StepTyped DEF TabStep
<1> QED
  BY <1>1, <1>2, <1>3, <1>4, <1>5

\* Loading a page and opening its database keep the types.
LEMMA OpenTyped ==
  ASSUME TypeOK, NEW t \in Tabs,
         Load(t) \/ FindExistingDbs(t) \/ Resolve(t) \/ OpenDatabase(t)
  PROVE  TypeOK'
<1>1. CASE Load(t)
  <2>1. tab' \in [Tabs -> Page]
    BY <1>1, LoadedPage DEF OthersCutOff
  <2>2. DbsTyped'
    BY <1>1, DbsCleared DEF Load
  <2>3. loads' \in 0..MaxLoads
    BY <1>1, BoundsAssumption DEF Load, TypeOK
  <2>4. given' \subseteq Changes
    <3>1. \A names \in SUBSET Names : UNION {dbs[n].changes : n \in names} \subseteq Changes
      BY ChangesTyped
    <3> QED
      BY <1>1, <3>1 DEF Load, TypeOK
  <2>5. unannounced' \in BOOLEAN
    BY <1>1 DEF Load
  <2>6. KnownTyped' /\ CountersTyped' /\ SetsTyped' /\ FlagsTyped'
    BY <1>1, <2>3, <2>4, <2>5 DEF Load, TypeOK, KnownTyped, CountersTyped, SetsTyped, FlagsTyped
  <2> QED
    BY <1>1, <2>1, <2>2, <2>6, StepTyped DEF TabStep
<1>2. CASE FindExistingDbs(t)
  <2>1. tab' \in [Tabs -> Page]
    BY <1>2, ListedPage
  <2>2. DbsTyped' /\ KnownTyped' /\ CountersTyped' /\ SetsTyped' /\ FlagsTyped'
    BY <1>2 DEF FindExistingDbs, TypeOK, DbsTyped, KnownTyped, CountersTyped, SetsTyped, FlagsTyped,
                deviceVars, channelVars, envVars, historyVars
  <2> QED
    BY <1>2, <2>1, <2>2, StepTyped DEF TabStep
<1>3. CASE Resolve(t)
  <2>1. tab' \in [Tabs -> Page] /\ migrated' \in BOOLEAN
    BY <1>3, ResolvedPage
  <2>2. DbsTyped' /\ KnownTyped' /\ CountersTyped' /\ SetsTyped' /\ FlagsTyped'
    BY <1>3, <2>1 DEF Resolve, TypeOK, DbsTyped, KnownTyped, CountersTyped, SetsTyped, FlagsTyped,
                      channelVars, envVars, historyVars
  <2> QED
    BY <1>3, <2>1, <2>2, StepTyped DEF TabStep
<1>4. CASE OpenDatabase(t)
  <2>1. tab' \in [Tabs -> Page]
    BY <1>4, OpenedPage DEF SamePage
  <2>2. tab[t].name \in Names /\ tab[t].adapter \in Adapters
    BY PageFields DEF TypeOK
  <2>3. recreated' \subseteq Names
    BY <1>4, <2>2 DEF OpenDatabase, TypeOK
  <2>5. DbsTyped'
    <3> DEFINE n == tab[t].name
               db == [dbs[n] EXCEPT !.adapter = tab[t].adapter]
    <3>1. dbs' = [dbs EXCEPT ![n] = db] \/ dbs' = dbs
      BY <1>4, <2>2 DEF OpenDatabase, TypeOK
    <3>2. db \in [adapter : Adapters \cup {"none"}, changes : SUBSET Changes]
      BY <2>2 DEF TypeOK
    <3> HIDE DEF db
    <3> QED
      BY <3>1, <3>2 DEF TypeOK, DbsTyped
  <2>4. KnownTyped' /\ CountersTyped' /\ SetsTyped' /\ FlagsTyped'
    BY <1>4, <2>3 DEF OpenDatabase, TypeOK, DbsTyped, KnownTyped, CountersTyped, SetsTyped, FlagsTyped,
                channelVars, envVars
  <2> QED
    BY <1>4, <2>1, <2>3, <2>4, <2>5, StepTyped DEF TabStep
<1> QED
  BY <1>1, <1>2, <1>3, <1>4

\* Using the database and migrating it keep the types.
LEMMA UseTyped ==
  ASSUME TypeOK, NEW t \in Tabs,
         \/ Edit(t) \/ Sync(t) \/ OfferMigration(t) \/ Confirm(t) \/ FinalSyncFails(t)
         \/ FinalSyncCompletes(t) \/ DeleteLegacyDb(t) \/ DeletionFails(t)
  PROVE  TypeOK'
<1>1. /\ tab[t].name \in Names /\ tab[t].covered \subseteq Changes /\ tab[t].reset \in BOOLEAN
      /\ dbs[tab[t].name].changes \subseteq Changes
  BY ChangesTyped, PageFields DEF TypeOK
<1>2. CASE Edit(t)
  <2>1. edits' \in 0..MaxEdits /\ edits + 1 \in Changes
    BY <1>2, BoundsAssumption DEF Edit, TypeOK, Changes
  <2>2. DbsTyped'
    BY <1>1, <1>2, <2>1 DEF Edit, TypeOK, DbsTyped
  <2>3. denied' \subseteq Changes /\ exposed' \subseteq Changes
    BY <1>2, <2>1 DEF Edit, TypeOK
  <2>4. UNCHANGED <<migrated, tab, known, deployment, server, loads, toggles, resets, given,
                    recreated, named, unannounced>>
    BY <1>2 DEF Edit, channelVars, envVars
  <2>5. tab' \in [Tabs -> Page] /\ KnownTyped' /\ CountersTyped' /\ SetsTyped' /\ FlagsTyped'
    BY <2>1, <2>3, <2>4 DEF TypeOK, KnownTyped, CountersTyped, SetsTyped, FlagsTyped
  <2> QED
    BY <1>2, <2>2, <2>5, StepTyped DEF TabStep
<1>3. CASE Sync(t) \/ OfferMigration(t) \/ Confirm(t) \/ FinalSyncFails(t) \/ FinalSyncCompletes(t)
  <2>1. tab' \in [Tabs -> Page]
    BY <1>3, OfferedPage, ConfirmedPage, SyncedPage DEF SamePage, Sync, TypeOK
  <2>2. server' \subseteq Changes
    BY <1>1, <1>3 DEF Sync, OfferMigration, Confirm, FinalSyncFails, FinalSyncCompletes, TypeOK,
                      envVars
  <2>3. UNCHANGED <<dbs, migrated, known, deployment, loads, toggles, resets, edits, denied,
                    exposed, given, recreated, named, unannounced>>
    BY <1>3 DEF Sync, OfferMigration, Confirm, FinalSyncFails, FinalSyncCompletes, deviceVars,
                channelVars, envVars, historyVars
  <2>4. DbsTyped' /\ KnownTyped' /\ CountersTyped' /\ SetsTyped' /\ FlagsTyped'
    BY <2>2, <2>3 DEF TypeOK, DbsTyped, KnownTyped, CountersTyped, SetsTyped, FlagsTyped
  <2> QED
    BY <1>3, <2>1, <2>4, StepTyped DEF TabStep, Migrate
<1>4. CASE DeleteLegacyDb(t)
  <2>1. tab' \in [Tabs -> Page]
    BY <1>4, DeletedPage DEF OthersCutOff
  <2>2. DbsTyped'
    BY <1>1, <1>4 DEF DeleteLegacyDb, TypeOK, DbsTyped, NoDb
  <2>3. UNCHANGED <<migrated, known, deployment, server, loads, toggles, resets, edits, denied,
                    exposed, given, recreated, named, unannounced>>
    BY <1>4 DEF DeleteLegacyDb, channelVars, envVars, historyVars
  <2>4. KnownTyped' /\ CountersTyped' /\ SetsTyped' /\ FlagsTyped'
    BY <2>3 DEF TypeOK, KnownTyped, CountersTyped, SetsTyped, FlagsTyped
  <2> QED
    BY <1>4, <2>1, <2>2, <2>4, StepTyped DEF TabStep, Migrate
<1>5. CASE DeletionFails(t)
  <2>1. PICK names \in {{}, {tab[t].name}} :
          /\ dbs' = [n \in Names |-> IF n \in names THEN NoDb ELSE dbs[n]]
          /\ tab' = [CutOff(t, names) EXCEPT ![t] = [NoTab EXCEPT !.reset = tab[t].reset]]
          /\ unannounced' = (unannounced \/ names # {})
    BY <1>5 DEF DeletionFails
  <2>2. tab' \in [Tabs -> Page]
    BY <1>1, <2>1, UndeletedPage DEF EndedPage
  <2>3. DbsTyped' /\ unannounced' \in BOOLEAN
    BY <2>1, DbsCleared
  <2>4. KnownTyped' /\ exposed' \subseteq Changes
    BY <1>5, ChangesTyped DEF DeletionFails, KnownTyped, TypeOK
  <2>5. UNCHANGED <<migrated, deployment, server, loads, toggles, resets, edits, denied,
                    given, recreated, named>>
    BY <1>5 DEF DeletionFails, envVars
  <2>6. CountersTyped' /\ SetsTyped' /\ FlagsTyped'
    BY <2>3, <2>4, <2>5 DEF TypeOK, CountersTyped, SetsTyped, FlagsTyped
  <2> QED
    BY <1>5, <2>2, <2>3, <2>4, <2>6, StepTyped DEF TabStep, Migrate
<1> QED
  BY <1>2, <1>3, <1>4, <1>5

\* Every step keeps the types.
LEMMA TypeNext == TypeOK /\ [Next]_vars => TypeOK'
<1> SUFFICES ASSUME TypeOK, [Next]_vars PROVE TypeOK'
  OBVIOUS
<1>1. ASSUME NEW t \in Tabs, TabStep(t) PROVE TypeOK'
  BY <1>1, EndTyped, OpenTyped, UseTyped DEF TabStep, Migrate
<1>2. CASE Toggle
  <2>1. deployment' \in Deployment
    BY <1>2 DEF Toggle, TypeOK, Deployment
  <2>2. toggles' \in 0..MaxToggles
    BY <1>2, BoundsAssumption DEF Toggle, TypeOK
  <2> QED
    BY <1>2, <2>1, <2>2 DEF Toggle, TypeOK, deviceVars, channelVars, historyVars
<1>3. CASE NameAccount
  <2>1. deployment' \in Deployment /\ named' \in BOOLEAN
    BY <1>3 DEF NameAccount, TypeOK, Deployment
  <2> QED
    BY <1>3, <2>1 DEF NameAccount, TypeOK, deviceVars, channelVars
<1>4. CASE UNCHANGED vars
  BY <1>4 DEF vars, TypeOK, deviceVars, channelVars, envVars, historyVars
<1> QED
  BY <1>1, <1>2, <1>3, <1>4 DEF Next, TabStep

\* At first the only database, if any, is the legacy one.
LEMMA TypeInit == Init => TypeOK
<1> SUFFICES ASSUME Init PROVE TypeOK
  OBVIOUS
<1>1. deployment \in Deployment /\ NoTab \in Page
  BY DEF Init, NoTab, Page, Deployment, Names, Adapters
<1>2. tab \in [Tabs -> Page] /\ known \in [Tabs -> SUBSET Tabs] /\ \A t \in Tabs : t \notin known[t]
  BY <1>1 DEF Init
<1>3. DbsTyped
  <2>1. PICK adapter \in {"none", "idb"} :
          dbs = [n \in Names |-> IF n = LegacyName(deployment)
                                 THEN [NoDb EXCEPT !.adapter = adapter] ELSE NoDb]
    BY DEF Init
  <2>2. /\ NoDb \in [adapter : Adapters \cup {"none"}, changes : SUBSET Changes]
        /\ [NoDb EXCEPT !.adapter = adapter] \in
              [adapter : Adapters \cup {"none"}, changes : SUBSET Changes]
    BY DEF NoDb, Adapters
  <2> QED
    BY <2>1, <2>2 DEF DbsTyped
<1>4. /\ inbox \in [Tabs -> Seq(Messages)]
      /\ \A t \in Tabs : \A i \in DOMAIN inbox[t] : inbox[t][i][2] # t
  BY DEF Init
<1>5. CountersTyped /\ FlagsTyped /\ SetsTyped
  <2>1. CountersTyped
    BY BoundsAssumption DEF Init, CountersTyped
  <2>2. migrated = FALSE /\ unannounced = FALSE /\ named = FALSE
    BY DEF Init
  <2>3. FlagsTyped
    BY <1>1, <2>2 DEF FlagsTyped
  <2>4. SetsTyped
    BY DEF Init, SetsTyped
  <2> QED
    BY <2>1, <2>3, <2>4
<1> QED
  BY <1>2, <1>3, <1>4, <1>5, TypeParts DEF KnownTyped

\* Every reachable state is well typed.
THEOREM TypeCorrect == Spec => []TypeOK
<1>1. Init => TypeOK
  BY TypeInit
<1>2. TypeOK /\ [Next]_vars => TypeOK'
  BY TypeNext
<1> QED
  BY <1>1, <1>2, PTL DEF Spec


-----------------------------------------------------------------------------
(***************************************************************************)
(* The other tabs' pages in a step, and the tab's own page                 *)
(***************************************************************************)
OthersKept(t) ==
    /\ tab' \in [Tabs -> Page]
    /\ \A s \in Tabs \ {t} :
          /\ tab'[s].pc = tab[s].pc \/ (Open(s) /\ tab'[s].pc = "cutOff")
          /\ tab'[s].deployment = tab[s].deployment /\ tab'[s].listed = tab[s].listed
          /\ tab'[s].name = tab[s].name /\ tab'[s].adapter = tab[s].adapter
          /\ tab'[s].covered = tab[s].covered /\ tab'[s].pending = tab[s].pending

\* A page is loaded anew.
FreshPage(t) ==
    /\ tab'[t].pc = "login" /\ tab'[t].name = "byId" /\ tab'[t].adapter = "indexeddb"
    /\ tab'[t].listed = [n \in Names |-> "none"] /\ ~tab'[t].pending
    /\ tab'[t].deployment = deployment

\* It goes on from one state to the next one, with its database.
GoesOn(t) ==
    /\ tab'[t].listed = tab[t].listed /\ tab'[t].name = tab[t].name
    /\ tab'[t].adapter = tab[t].adapter /\ tab'[t].deployment = tab[t].deployment
    /\ (tab'[t].pending => tab[t].pending)
    /\ \/ tab[t].pc = "open" /\ tab'[t].pc \in {"open", "asked"}
       \/ tab[t].pc = "asked" /\ tab'[t].pc \in {"open", "syncing"}
       \/ tab[t].pc = "syncing" /\ tab'[t].pc \in {"open", "destroying"}
       \/ tab[t].pc = "destroying" /\ tab'[t].pc = "deleted"

\* What can happen to a page
LEMMA OwnPage ==
  ASSUME TypeOK, NEW t \in Tabs, TabStep(t)
  PROVE  /\ OthersKept(t)
         /\ \/ tab'[t] = tab[t] /\ (Receive(t) \/ Ping(t) \/ RemoveStaleTabs(t) \/ Edit(t) \/ Sync(t))
            \/ EndedPage(t) /\ (Receive(t) \/ Close(t) \/ MarkResetPending(t) \/ DeletionFails(t)
                                \/ FinishMigration(t))
            \/ FreshPage(t) /\ Load(t)
            \/ FindExistingDbs(t) \/ Resolve(t) \/ OpenDatabase(t)
            \/ GoesOn(t) /\ (OfferMigration(t) \/ Confirm(t) \/ FinalSyncFails(t)
                             \/ FinalSyncCompletes(t) \/ DeleteLegacyDb(t))
<1>1. CASE \/ Receive(t) \/ Close(t) \/ MarkResetPending(t) \/ FinishMigration(t)
  <2>1. CASE Ends(t) \/ MarkResetPending(t)
    <3>1. EndedPage(t) /\ \A s \in Tabs \ {t} : tab'[s] = tab[s]
      BY <2>1, Ended
    <3> QED
      BY <1>1, <3>1 DEF OthersKept, EndedPage
  <2>2. CASE ~Ends(t) /\ ~MarkResetPending(t)
    <3>1. Receive(t) /\ ~Leaves(t)
      BY <1>1, <2>2 DEF Close, Leaves, FinishMigration
    <3>2. tab' = tab
      BY <3>1, ReceiveMail
    <3> QED
      BY <3>1, <3>2 DEF OthersKept, TypeOK
  <2> QED
    BY <2>1, <2>2
<1>2. CASE Ping(t) \/ RemoveStaleTabs(t) \/ Edit(t) \/ Sync(t)
  <2>1. tab' = tab
    BY <1>2 DEF Ping, RemoveStaleTabs, Edit, Sync
  <2> QED
    BY <1>2, <2>1 DEF OthersKept, TypeOK
<1>3. CASE Load(t)
  BY <1>3, LoadedPage DEF OthersCutOff, OthersKept, FreshPage
<1>4. CASE DeletionFails(t)
  <2>1. PICK names \in {{}, {tab[t].name}} :
          tab' = [CutOff(t, names) EXCEPT ![t] = [NoTab EXCEPT !.reset = tab[t].reset]]
    BY <1>4 DEF DeletionFails
  <2>2. tab[t].reset \in BOOLEAN
    BY PageFields DEF TypeOK
  <2>3. OthersCutOff(t, names) /\ EndedPage(t)
    BY <2>1, <2>2, UndeletedPage
  <2> QED
    BY <1>4, <2>3 DEF OthersCutOff, OthersKept
<1>5. CASE FindExistingDbs(t)
  BY <1>5, ListedPage DEF OthersKept
<1>6. CASE Resolve(t)
  BY <1>6, ResolvedPage DEF OthersKept
<1>7. CASE OpenDatabase(t)
  BY <1>7, OpenedPage DEF OthersKept, SamePage
<1>8. CASE OfferMigration(t)
  BY <1>8, OfferedPage DEF OthersKept, SamePage, GoesOn
<1>9. CASE Confirm(t)
  BY <1>9, ConfirmedPage DEF OthersKept, SamePage, GoesOn
<1>10. CASE FinalSyncFails(t) \/ FinalSyncCompletes(t)
  BY <1>10, SyncedPage DEF OthersKept, SamePage, GoesOn
<1>11. CASE DeleteLegacyDb(t)
  BY <1>11, DeletedPage DEF OthersKept, OthersCutOff, GoesOn
<1> QED
  BY <1>1, <1>2, <1>3, <1>4, <1>5, <1>6, <1>7, <1>8, <1>9, <1>10, <1>11 DEF TabStep, Migrate

-----------------------------------------------------------------------------
(***************************************************************************)
(* CutOffTabsReload                                                        *)
(***************************************************************************)

\* A message to reload is waiting for the tab.
Reloads(t) == \E m \in Elements(inbox[t]) : m[1] = "reload"

\* A tab that has been cut off is still going to be told, whoever takes a step.
LEMMA CutOffTold ==
  ASSUME TypeOK, CutOffTabsReload, NEW t \in Tabs, TabStep(t),
         NEW s \in Tabs, tab[s].pc = "cutOff", tab'[s].pc = "cutOff"
  PROVE  unannounced' \/ (\E x \in Tabs : tab'[x].pc = "deleted") \/ Reloads(s)'
<1>1. OthersKept(t) /\ MailFrom(t)
  BY OwnPage, TabMail
<1>2. unannounced => unannounced'
  BY DEF TabStep, Receive, Ping, RemoveStaleTabs, Load, Close, FindExistingDbs, Resolve, OpenDatabase,
         Edit, Sync, Migrate, OfferMigration, Confirm, FinalSyncFails, FinalSyncCompletes,
         DeleteLegacyDb, DeletionFails, FinishMigration, MarkResetPending, historyVars
<1>3. CASE \E x \in Tabs : tab[x].pc = "deleted"
  <2>1. PICK x \in Tabs : tab[x].pc = "deleted"
    BY <1>3
  <2>2. CASE x # t
    <3>1. tab'[x].pc = "deleted"
      BY <1>1, <2>1, <2>2 DEF OthersKept, Open
    <3> QED
      BY <3>1
  <2>3. CASE x = t
    <3>1. CASE tab'[t] = tab[t]
      BY <2>1, <2>3, <3>1
    <3>2. CASE EndedPage(t) /\ (Receive(t) \/ Close(t))
      <4>1. EndsMigration(t)
        BY <2>1, <2>3, <3>2 DEF EndsMigration, EndedPage, Alive
      <4> QED
        BY <3>2, <4>1 DEF Receive, Close
    <3>3. CASE FinishMigration(t)
      <4>1. <<"reload", t>> \in Elements(inbox'[s])
        BY <2>1, <2>3, <3>3, FinishMail DEF Alive
      <4> QED
        BY <4>1 DEF Reloads
    <3> QED
      BY <2>1, <2>3, <3>1, <3>2, <3>3, OwnPage, OpenedPage, ResolvedPage
         DEF GoesOn, MarkResetPending, DeletionFails, FindExistingDbs, Resolve, Load, Alive
  <2> QED
    BY <2>2, <2>3
<1>4. CASE \E i \in DOMAIN inbox[s] : inbox[s][i][1] = "reload"
  <2>1. PICK m \in Elements(inbox[s]) : m[1] = "reload"
    BY <1>4 DEF Elements
  <2>2. CASE s # t
    BY <1>1, <2>1, <2>2 DEF MailFrom, Reloads
  <2>3. CASE s = t
    <3>1. Receive(t) => Reloads(t)'
      BY <2>1, <2>3, ReceiveMail, Ended DEF Reloads, Leaves, EndedPage
    <3>2. inbox' = inbox => Reloads(t)'
      BY <2>1, <2>3 DEF Reloads
    <3>3. RemoveStaleTabs(t) => inbox' = inbox
      BY DEF RemoveStaleTabs
    <3>4. Ping(t) => Reloads(t)'
      BY <2>1, <2>3, PingMail DEF Reloads
    <3> QED
      BY <2>1, <2>3, <3>1, <3>2, <3>3, <3>4, OwnPage, ListedPage, ResolvedPage, OpenedPage
         DEF EndedPage, FreshPage, GoesOn, FindExistingDbs, Resolve, OpenDatabase, Edit, Sync
  <2> QED
    BY <2>2, <2>3
<1> QED
  BY <1>2, <1>3, <1>4 DEF CutOffTabsReload

\* CutOffTabsReload is inductive.
LEMMA CutOffNext == TypeOK /\ CutOffTabsReload /\ [Next]_vars => CutOffTabsReload'
<1> SUFFICES ASSUME TypeOK, CutOffTabsReload, [Next]_vars PROVE CutOffTabsReload'
  OBVIOUS
<1>1. \A s \in Tabs : Reloads(s)' => \E i \in DOMAIN inbox'[s] : inbox'[s][i][1] = "reload"
  BY DEF Reloads, Elements
<1>2. ASSUME NEW t \in Tabs, TabStep(t) PROVE CutOffTabsReload'
  <2> SUFFICES ASSUME NEW s \in Tabs, tab'[s].pc = "cutOff"
               PROVE  unannounced' \/ (\E x \in Tabs : tab'[x].pc = "deleted") \/ Reloads(s)'
    BY <1>1 DEF CutOffTabsReload
  <2>1. CASE tab[s].pc = "cutOff"
    BY <1>2, <2>1, CutOffTold
  <2>2. CASE tab[s].pc # "cutOff"
    <3>1. CASE DeleteLegacyDb(t)
      BY <3>1, DeletedPage
    <3>2. CASE Load(t)
      <4>1. tab[t].reset \in BOOLEAN
        BY PageFields DEF TypeOK
      <4>2. tab[t].reset
        BY <2>2, <3>2, <4>1, LoadedPage DEF OthersCutOff
      <4> QED
        BY <3>2, <4>2 DEF Load
    <3>3. CASE DeletionFails(t)
      <4>1. PICK names \in {{}, {tab[t].name}} :
              /\ tab' = [CutOff(t, names) EXCEPT ![t] = [NoTab EXCEPT !.reset = tab[t].reset]]
              /\ unannounced' = (unannounced \/ names # {})
        BY <3>3 DEF DeletionFails
      <4>2. tab[t].reset \in BOOLEAN
        BY PageFields DEF TypeOK
      <4>3. OthersCutOff(t, names) /\ EndedPage(t)
        BY <4>1, <4>2, UndeletedPage
      <4>4. names # {}
        BY <2>2, <4>3 DEF OthersCutOff, EndedPage
      <4> QED
        BY <4>1, <4>4
    <3>4. CASE Receive(t) \/ Close(t) \/ FinishMigration(t) \/ MarkResetPending(t)
      BY <2>2, <3>4, Ended, ReceiveMail DEF EndedPage, Leaves, Close, FinishMigration
    <3>5. CASE FindExistingDbs(t) \/ Resolve(t) \/ OpenDatabase(t)
      BY <2>2, <3>5, ListedPage, ResolvedPage, OpenedPage DEF SamePage
    <3>6. CASE OfferMigration(t) \/ Confirm(t) \/ FinalSyncFails(t) \/ FinalSyncCompletes(t)
      BY <2>2, <3>6, OfferedPage, ConfirmedPage, SyncedPage DEF SamePage
    <3>7. CASE Ping(t) \/ RemoveStaleTabs(t) \/ Edit(t) \/ Sync(t)
      BY <2>2, <3>7 DEF Ping, RemoveStaleTabs, Edit, Sync
    <3> QED
      BY <1>2, <3>1, <3>2, <3>3, <3>4, <3>5, <3>6, <3>7 DEF TabStep, Migrate
  <2> QED
    BY <2>1, <2>2
<1>3. CASE Toggle \/ NameAccount \/ UNCHANGED vars
  <2>1. UNCHANGED <<tab, inbox, unannounced>>
    BY <1>3 DEF Toggle, NameAccount, vars, channelVars, historyVars
  <2> QED
    BY <2>1 DEF CutOffTabsReload
<1> QED
  BY <1>2, <1>3 DEF Next, TabStep

\* CutOffTabsReload holds in every reachable state: a tab whose database another tab has
\* deleted is going to be told, unless the page that deleted it ended in between.
THEOREM CutOffCorrect == Spec => []CutOffTabsReload
<1>1. Init => CutOffTabsReload
  BY DEF Init, CutOffTabsReload, NoTab
<1>2. TypeOK /\ CutOffTabsReload /\ [Next]_vars => CutOffTabsReload'
  BY CutOffNext
<1> QED
  BY <1>1, <1>2, TypeCorrect, PTL DEF Spec


-----------------------------------------------------------------------------
(***************************************************************************)
(* AdapterFits: the new database, and only that one, has the new adapter.  *)
(***************************************************************************)
AdapterInv ==
    /\ dbs["byName"].adapter # "indexeddb"
    /\ \A t \in Tabs :
          /\ tab[t].listed["byName"] # "indexeddb"
          /\ tab[t].adapter = "indexeddb" => tab[t].name = "byId"
          /\ tab[t].pc = "resolved" /\ tab[t].deployment.listable
                => tab[t].listed[tab[t].name] \in {tab[t].adapter, "none"}

\* The configuration that is chosen fits the databases that were listed.
LEMMA ConfigFits ==
  ASSUME NEW d \in Deployment, NEW listed \in [Names -> Adapters \cup {"none"}], NEW flag,
         listed["byName"] # "indexeddb"
  PROVE  LET config == DbConfig(d, listed, flag)
         IN  /\ config.adapter = "indexeddb" => config.name = "byId"
             /\ d.listable => listed[config.name] \in {config.adapter, "none"}
<1>1. /\ LegacyName(d) \in {"byName", "byId"} /\ NewName = "byId"
      /\ listed["byName"] \in {"idb", "none"} /\ listed["byId"] \in {"idb", "indexeddb", "none"}
  BY DEF LegacyName, NewName, Names, Adapters
<1> QED
  BY <1>1 DEF DbConfig, LegacyConfig, NewConfig, Is, FreshInstall

\* A page whose configuration stays keeps fitting.
LEMMA AdapterNext == TypeOK /\ AdapterInv /\ [Next]_vars => AdapterInv'
<1> SUFFICES ASSUME TypeOK, AdapterInv, [Next]_vars PROVE AdapterInv'
  OBVIOUS
<1>1. ASSUME NEW t \in Tabs, TabStep(t) PROVE AdapterInv'
  <2>1. OthersKept(t)
    BY <1>1, OwnPage
  <2>2. ASSUME NEW s \in Tabs \ {t}
        PROVE  /\ tab'[s].listed["byName"] # "indexeddb"
               /\ tab'[s].adapter = "indexeddb" => tab'[s].name = "byId"
               /\ tab'[s].pc = "resolved" /\ tab'[s].deployment.listable
                     => tab'[s].listed[tab'[s].name] \in {tab'[s].adapter, "none"}
    BY <2>1 DEF OthersKept, AdapterInv
  <2>3. /\ tab'[t].listed["byName"] # "indexeddb"
        /\ tab'[t].adapter = "indexeddb" => tab'[t].name = "byId"
        /\ tab'[t].pc = "resolved" /\ tab'[t].deployment.listable
              => tab'[t].listed[tab'[t].name] \in {tab'[t].adapter, "none"}
    <3>1. CASE tab'[t] = tab[t]
      BY <3>1 DEF AdapterInv
    <3>2. CASE EndedPage(t) \/ FreshPage(t)
      BY <3>2 DEF EndedPage, FreshPage, Names
    <3>3. CASE FindExistingDbs(t)
      <4>1. /\ tab'[t].pc = "listed" /\ tab'[t].name = tab[t].name
            /\ tab'[t].adapter = tab[t].adapter
            /\ tab'[t].listed = [n \in Names |-> dbs[n].adapter]
        BY <3>3, ListedPage
      <4>2. tab'[t].listed["byName"] = dbs["byName"].adapter
        BY <4>1 DEF Names
      <4> QED
        BY <4>1, <4>2 DEF AdapterInv
    <3>4. CASE Resolve(t)
      <4> DEFINE config == DbConfig(tab[t].deployment, tab[t].listed, migrated)
      <4>1. tab[t].deployment \in Deployment /\ tab[t].listed \in [Names -> Adapters \cup {"none"}]
        BY PageFields DEF TypeOK
      <4>2. /\ config.adapter = "indexeddb" => config.name = "byId"
            /\ tab[t].deployment.listable => tab[t].listed[config.name] \in {config.adapter, "none"}
        BY <4>1, ConfigFits DEF AdapterInv
      <4>3. /\ tab'[t].deployment = tab[t].deployment /\ tab'[t].listed = tab[t].listed
            /\ tab'[t].name = config.name /\ tab'[t].adapter = config.adapter
        BY <3>4, ResolvedPage
      <4> HIDE DEF config
      <4> QED
        BY <4>2, <4>3 DEF AdapterInv
    <3>5. CASE OpenDatabase(t)
      BY <3>5, OpenedPage DEF AdapterInv, SamePage
    <3>6. CASE GoesOn(t)
      BY <3>6 DEF AdapterInv, GoesOn
    <3> QED
      BY <1>1, <3>1, <3>2, <3>3, <3>4, <3>5, <3>6, OwnPage
  <2>4. dbs'["byName"].adapter # "indexeddb"
    <3>1. "byName" \in Names /\ tab[t].name \in Names
      BY PageFields DEF TypeOK, Names
    <3>2. CASE Load(t) \/ DeletionFails(t) \/ DeleteLegacyDb(t)
      <4>1. dbs'["byName"] \in {dbs["byName"], NoDb}
        BY <3>1, <3>2 DEF Load, DeletionFails, DeleteLegacyDb, TypeOK
      <4> QED
        BY <4>1 DEF AdapterInv, NoDb
    <3>3. CASE OpenDatabase(t)
      <4>1. CASE tab[t].name = "byName"
        <5>1. tab[t].adapter # "indexeddb"
          BY <4>1 DEF AdapterInv
        <5>2. dbs'["byName"].adapter \in {dbs["byName"].adapter, tab[t].adapter}
          BY <3>1, <3>3, <4>1 DEF OpenDatabase, TypeOK
        <5> QED
          BY <5>1, <5>2 DEF AdapterInv
      <4>2. CASE tab[t].name # "byName"
        <5>1. dbs'["byName"] = dbs["byName"]
          BY <3>1, <3>3, <4>2 DEF OpenDatabase, TypeOK
        <5> QED
          BY <5>1 DEF AdapterInv
      <4> QED
        BY <4>1, <4>2
    <3>4. CASE Edit(t)
      <4>1. dbs'["byName"].adapter = dbs["byName"].adapter
        BY <3>1, <3>4 DEF Edit, TypeOK
      <4> QED
        BY <4>1 DEF AdapterInv
    <3>5. CASE ~Load(t) /\ ~DeletionFails(t) /\ ~DeleteLegacyDb(t) /\ ~OpenDatabase(t) /\ ~Edit(t)
      <4>1. dbs' = dbs
        BY <1>1, <3>5 DEF TabStep, Receive, Ping, RemoveStaleTabs, Close, FindExistingDbs, Resolve, Sync,
           Migrate, OfferMigration, Confirm, FinalSyncFails, FinalSyncCompletes, FinishMigration,
           MarkResetPending, deviceVars
      <4> QED
        BY <4>1 DEF AdapterInv
    <3> QED
      BY <3>2, <3>3, <3>4, <3>5
  <2> QED
    BY <2>2, <2>3, <2>4 DEF AdapterInv
<1>2. CASE Toggle \/ NameAccount \/ UNCHANGED vars
  <2>1. UNCHANGED <<tab, dbs>>
    BY <1>2 DEF Toggle, NameAccount, vars, deviceVars
  <2> QED
    BY <2>1 DEF AdapterInv
<1> QED
  BY <1>1, <1>2 DEF Next, TabStep

\* At first no database has the new adapter.
LEMMA AdapterInit == Init => AdapterInv
<1> SUFFICES ASSUME Init PROVE AdapterInv
  OBVIOUS
<1>1. dbs["byName"].adapter # "indexeddb"
  BY DEF Init, NoDb, Names
<1>2. \A t \in Tabs : tab[t] = NoTab
  BY DEF Init
<1> QED
  BY <1>1, <1>2 DEF AdapterInv, NoTab, Names

\* No step opens a database with an adapter that cannot read it, unless another tab has
\* replaced it since the databases were listed, or they cannot be listed.
THEOREM AdapterCorrect == Spec => AdapterFits
<1> DEFINE Fits ==
      \A t \in Tabs :
          tab[t].pc = "resolved" /\ tab'[t].pc = "unusable" /\ tab[t].deployment.listable
            => tab[t].listed[tab[t].name] # dbs[tab[t].name].adapter
<1>1. Init => AdapterInv
  BY AdapterInit
<1>2. TypeOK /\ AdapterInv /\ [Next]_vars => AdapterInv'
  BY AdapterNext
<1>3. TypeOK /\ AdapterInv /\ [Next]_vars => [Fits]_vars
  <2> SUFFICES ASSUME TypeOK, AdapterInv, Next, NEW s \in Tabs,
                      tab[s].pc = "resolved", tab'[s].pc = "unusable", tab[s].deployment.listable
               PROVE  tab[s].listed[tab[s].name] # dbs[tab[s].name].adapter
    OBVIOUS
  <2>1. PICK t \in Tabs : TabStep(t)
    BY DEF Next, TabStep, Toggle, NameAccount
  <2>2. s = t
    BY <2>1, OwnPage DEF OthersKept
  <2>3. OpenDatabase(t)
    BY <2>1, <2>2, OwnPage, ListedPage, ResolvedPage DEF EndedPage, FreshPage, GoesOn
  <2>4. dbs[tab[s].name].adapter \notin {tab[s].adapter, "none"}
    BY <2>2, <2>3, OpenedPage
  <2> QED
    BY <2>4 DEF AdapterInv
<1>4. Spec => [][Fits]_vars
  BY <1>1, <1>2, <1>3, TypeCorrect, PTL DEF Spec
<1> QED
  BY <1>4 DEF AdapterFits


-----------------------------------------------------------------------------
(***************************************************************************)
(* NothingIsLost                                                           *)
(***************************************************************************)

\* Changes whose loss with a database would be no loss, or one nobody could avoid
Safe == server \cup denied \cup exposed

\* The final sync covers all changes of the database, unless a tab that it knows of makes
\* more of them; and the database is only deleted once it is known that there is none.
FinalSyncCovers ==
    \A t \in Tabs :
        /\ tab[t].pc = "syncing" =>
              \/ dbs[tab[t].name].changes \ tab[t].covered \subseteq exposed
              \/ \E s \in Tabs : Noticed(t, s)
        /\ tab[t].pc = "destroying" => dbs[tab[t].name].changes \subseteq Safe

\* Nothing that is safe becomes unsafe, and a local change is only ever added.
LEMMA SafeGrows ==
  ASSUME TypeOK, NEW t \in Tabs, TabStep(t)
  PROVE  /\ server \subseteq server' /\ denied \subseteq denied' /\ given \subseteq given'
         /\ exposed \subseteq exposed' /\ Safe \subseteq Safe'
         /\ Alive(t) /\ ~Alive(t)' => LeftBehind(t) \subseteq exposed'
<1>1. server \subseteq server' /\ denied \subseteq denied' /\ given \subseteq given'
  BY DEF TabStep, Receive, Ping, RemoveStaleTabs, Load, Close, FindExistingDbs, Resolve, OpenDatabase,
         Edit, Sync, Migrate, OfferMigration, Confirm, FinalSyncFails, FinalSyncCompletes,
         DeleteLegacyDb, DeletionFails, FinishMigration, MarkResetPending, historyVars, envVars
<1>2. exposed \subseteq LeftBehind(t)
  BY DEF LeftBehind
<1>3. exposed \subseteq exposed'
  <2>1. CASE Receive(t)
    BY <1>2, <2>1, ReceiveMail DEF Leaves, Ends
  <2>2. CASE Close(t) \/ FinishMigration(t) \/ DeletionFails(t) \/ MarkResetPending(t)
    BY <1>2, <2>2 DEF Close, Leaves, Ends, FinishMigration, DeletionFails, MarkResetPending
  <2>3. CASE Edit(t)
    BY <2>3 DEF Edit
  <2>5. CASE RemoveStaleTabs(t)
    BY <2>5 DEF RemoveStaleTabs
  <2>4. CASE \/ Ping(t) \/ Load(t) \/ FindExistingDbs(t) \/ Resolve(t) \/ OpenDatabase(t)
             \/ Sync(t) \/ OfferMigration(t) \/ Confirm(t) \/ FinalSyncFails(t)
             \/ FinalSyncCompletes(t) \/ DeleteLegacyDb(t)
    BY <2>4 DEF Ping, Load, FindExistingDbs, Resolve, OpenDatabase, Sync, OfferMigration,
       Confirm, FinalSyncFails, FinalSyncCompletes, DeleteLegacyDb, historyVars
  <2> QED
    BY <2>1, <2>2, <2>3, <2>4, <2>5 DEF TabStep, Migrate
<1>4. ASSUME Alive(t), ~Alive(t)' PROVE LeftBehind(t) \subseteq exposed'
  <2>1. EndedPage(t) /\ (Receive(t) \/ Close(t) \/ MarkResetPending(t) \/ DeletionFails(t)
                         \/ FinishMigration(t))
    BY <1>4, OwnPage, ListedPage, ResolvedPage, OpenedPage
       DEF Alive, FreshPage, GoesOn
  <2>2. Receive(t) => Leaves(t)
    BY <1>4, ReceiveMail DEF Alive
  <2> QED
    BY <2>1, <2>2 DEF Leaves, Ends, Close, MarkResetPending, DeletionFails, FinishMigration
<1> QED
  BY <1>1, <1>2, <1>3, <1>4 DEF Safe

\* What a step of a tab does to the changes of a database
LEMMA ChangesStep ==
  ASSUME TypeOK, NEW t \in Tabs, TabStep(t), NEW n \in Names
  PROVE  \/ dbs'[n].changes = dbs[n].changes
         \/ /\ Edit(t) /\ n = tab[t].name
            /\ dbs'[n].changes = dbs[n].changes \cup {edits + 1}
         \/ /\ dbs'[n].changes = {} /\ ~Edit(t)
            /\ \/ tab[t].pc = "destroying" /\ n = tab[t].name
               \/ dbs[n].changes \subseteq given'
<1>1. tab[t].name \in Names /\ dbs \in [Names -> [adapter : Adapters \cup {"none"}, changes : SUBSET Changes]]
  BY PageFields DEF TypeOK
<1>2. NoDb.changes = {}
  BY DEF NoDb
<1>3. CASE Edit(t)
  BY <1>1, <1>3 DEF Edit
<1>4. CASE OpenDatabase(t)
  <2>1. \/ dbs' = dbs
        \/ dbs' = [dbs EXCEPT ![tab[t].name].adapter = tab[t].adapter]
    BY <1>4 DEF OpenDatabase
  <2> QED
    BY <1>1, <2>1
<1>5. CASE Load(t)
  <2> DEFINE names == IF tab[t].reset THEN Names ELSE {}
  <2>1. /\ dbs' = [m \in Names |-> IF m \in names THEN NoDb ELSE dbs[m]]
        /\ given' = given \cup UNION {dbs[m].changes : m \in names}
        /\ ~Alive(t)
    BY <1>5 DEF Load
  <2>2. ~Edit(t)
    BY <2>1 DEF Edit, Alive
  <2> HIDE DEF names
  <2> QED
    BY <1>1, <1>2, <2>1, <2>2
<1>6. CASE DeleteLegacyDb(t)
  BY <1>1, <1>2, <1>6 DEF DeleteLegacyDb, Edit
<1>7. CASE DeletionFails(t)
  <2>1. PICK names \in {{}, {tab[t].name}} :
            dbs' = [m \in Names |-> IF m \in names THEN NoDb ELSE dbs[m]]
    BY <1>7 DEF DeletionFails
  <2>2. tab[t].pc = "destroying" /\ ~Edit(t)
    BY <1>7 DEF DeletionFails, Edit
  <2> QED
    BY <1>1, <1>2, <2>1, <2>2
<1>8. CASE \/ Receive(t) \/ Ping(t) \/ RemoveStaleTabs(t) \/ Close(t) \/ FindExistingDbs(t) \/ Resolve(t)
           \/ Sync(t) \/ OfferMigration(t) \/ Confirm(t) \/ FinalSyncFails(t)
           \/ FinalSyncCompletes(t) \/ FinishMigration(t) \/ MarkResetPending(t)
  BY <1>8 DEF Receive, Ping, RemoveStaleTabs, Close, FindExistingDbs, Resolve, Sync, OfferMigration,
     Confirm, FinalSyncFails, FinalSyncCompletes, FinishMigration, MarkResetPending, deviceVars
<1> QED
  BY <1>3, <1>4, <1>5, <1>6, <1>7, <1>8 DEF TabStep, Migrate

\* A page that stays open sends no message that makes another tab forget it.
LEMMA OpenMail ==
  ASSUME TypeOK, NEW t \in Tabs, TabStep(t), Alive(t), Alive(t)', NEW s \in Tabs \ {t}
  PROVE  /\ known'[s] = known[s]
         /\ \A m \in Elements(inbox'[s]) : m \in Elements(inbox[s]) \/ m = <<"ping", t>>
<1>1. ~Load(t) /\ ~EndedPage(t)
  BY DEF Load, EndedPage, Alive
<1>2. CASE Receive(t)
  <2>1. ~Leaves(t)
    BY <1>1, Ended DEF Leaves
  <2> QED
    BY <1>2, <2>1, ReceiveMail
<1>3. CASE RemoveStaleTabs(t)
  BY <1>3 DEF RemoveStaleTabs, TypeOK
<1>6. CASE Ping(t)
  BY <1>6, PingMail
<1>4. CASE \/ FindExistingDbs(t) \/ Resolve(t) \/ OpenDatabase(t) \/ Edit(t) \/ Sync(t)
           \/ OfferMigration(t) \/ Confirm(t) \/ FinalSyncFails(t) \/ FinalSyncCompletes(t)
           \/ DeleteLegacyDb(t)
  BY <1>4 DEF FindExistingDbs, Resolve, OpenDatabase, Edit, Sync, OfferMigration, Confirm,
     FinalSyncFails, FinalSyncCompletes, DeleteLegacyDb, channelVars
<1>5. CASE Close(t) \/ MarkResetPending(t) \/ FinishMigration(t) \/ DeletionFails(t)
  <2>1. CASE Close(t) \/ MarkResetPending(t) \/ FinishMigration(t)
    BY <1>1, <2>1, Ended DEF Close, Leaves, FinishMigration
  <2>2. CASE DeletionFails(t)
    <3>1. PICK names : tab' = [CutOff(t, names) EXCEPT ![t] = [NoTab EXCEPT !.reset = tab[t].reset]]
      BY <2>2 DEF DeletionFails
    <3>2. tab[t].reset \in BOOLEAN
      BY PageFields DEF TypeOK
    <3> QED
      BY <1>1, <3>1, <3>2, UndeletedPage
  <2> QED
    BY <1>5, <2>1, <2>2
<1> QED
  BY <1>1, <1>2, <1>3, <1>4, <1>5, <1>6 DEF TabStep, Migrate

\* A tab only changes what it knows itself.
LEMMA OthersKnown ==
  ASSUME TypeOK, NEW t \in Tabs, TabStep(t), NEW s \in Tabs \ {t}
  PROVE  known'[s] = known[s]
<1>1. CASE Receive(t)
  <2>1. Leaves(t) => known'[s] = known[s]
    BY DEF Leaves, Ends, TypeOK
  <2> QED
    BY <1>1, <2>1, ReceiveMail
<1>2. CASE \/ RemoveStaleTabs(t) \/ Close(t) \/ DeletionFails(t) \/ FinishMigration(t)
           \/ MarkResetPending(t)
  BY <1>2 DEF RemoveStaleTabs, Close, Leaves, Ends, DeletionFails, FinishMigration,
     MarkResetPending, TypeOK
<1>3. CASE \/ Ping(t) \/ Load(t) \/ FindExistingDbs(t) \/ Resolve(t) \/ OpenDatabase(t) \/ Edit(t)
           \/ Sync(t) \/ OfferMigration(t) \/ Confirm(t) \/ FinalSyncFails(t)
           \/ FinalSyncCompletes(t) \/ DeleteLegacyDb(t)
  BY <1>3 DEF Ping, Load, FindExistingDbs, Resolve, OpenDatabase, Edit, Sync, OfferMigration, Confirm,
     FinalSyncFails, FinalSyncCompletes, DeleteLegacyDb, channelVars
<1> QED
  BY <1>1, <1>2, <1>3 DEF TabStep, Migrate


\* A page that a tab has noticed and that stays open stays noticed, whoever takes a step,
\* unless the tab forgets it.
LEMMA StaysNoticed ==
  ASSUME TypeOK, NEW t \in Tabs, TabStep(t), NEW s \in Tabs, NEW x \in Tabs,
         Noticed(s, x), Alive(s), Alive(s)', Alive(x)', RemoveStaleTabs(t) => x \in known'[s]
  PROVE  Noticed(s, x)'
<1>1. /\ x \in known[s] /\ Alive(x) /\ <<"hello", x>> \notin Elements(inbox[s])
      /\ <<"goodbye", x>> \notin Elements(inbox[s])
  BY DEF Noticed, Elements
<1>2. s \notin known[s] /\ x # s
  BY <1>1 DEF TypeOK
<1>3. /\ x \in known'[s] /\ <<"hello", x>> \notin Elements(inbox'[s])
      /\ <<"goodbye", x>> \notin Elements(inbox'[s])
  <2>1. CASE s = t
    <3>1. ~Load(t) /\ ~EndedPage(t)
      BY <2>1 DEF Load, EndedPage, Alive
    <3>2. CASE Receive(t)
      <4>1. ~Leaves(t)
        BY <3>1, Ended DEF Leaves
      <4> QED
        BY <1>1, <2>1, <3>2, <4>1, ReceiveMail
    <3>3. CASE RemoveStaleTabs(t)
      <4>1. inbox' = inbox
        BY <3>3 DEF RemoveStaleTabs
      <4> QED
        BY <1>1, <3>3, <4>1
    <3>7. CASE Ping(t)
      <4>1. inbox'[s] = inbox[s] /\ known' = known
        BY <2>1, <3>7, PingMail
      <4> QED
        BY <1>1, <4>1
    <3>4. CASE UNCHANGED channelVars
      BY <1>1, <3>4 DEF channelVars
    <3>5. ~Close(t) /\ ~MarkResetPending(t) /\ ~FinishMigration(t) /\ ~DeletionFails(t)
      <4>1. ~Close(t) /\ ~MarkResetPending(t) /\ ~FinishMigration(t)
        BY <3>1, Ended DEF Close, Leaves, FinishMigration
      <4>2. ASSUME DeletionFails(t) PROVE FALSE
        <5>1. PICK names : tab' = [CutOff(t, names) EXCEPT ![t] = [NoTab EXCEPT !.reset = tab[t].reset]]
          BY <4>2 DEF DeletionFails
        <5>2. tab[t].reset \in BOOLEAN
          BY PageFields DEF TypeOK
        <5> QED
          BY <3>1, <5>1, <5>2, UndeletedPage
      <4> QED
        BY <4>1, <4>2
    <3>6. (\/ FindExistingDbs(t) \/ Resolve(t) \/ OpenDatabase(t) \/ Edit(t) \/ Sync(t)
           \/ OfferMigration(t) \/ Confirm(t) \/ FinalSyncFails(t) \/ FinalSyncCompletes(t)
           \/ DeleteLegacyDb(t)) => UNCHANGED channelVars
      BY DEF FindExistingDbs, Resolve, OpenDatabase, Edit, Sync, OfferMigration, Confirm,
         FinalSyncFails, FinalSyncCompletes, DeleteLegacyDb
    <3> QED
      BY <3>1, <3>2, <3>3, <3>4, <3>5, <3>6, <3>7 DEF TabStep, Migrate
  <2>3. CASE s # t /\ x = t
    BY <1>1, <2>3, OpenMail
  <2>4. CASE s # t /\ x # t
    <3>1. known'[s] = known[s]
      BY <2>4, OthersKnown
    <3>2. \A m \in Elements(inbox'[s]) : m \in Elements(inbox[s]) \/ m[2] = t
      BY <2>4, TabMail DEF MailFrom
    <3>3. <<"hello", x>>[2] = x /\ <<"goodbye", x>>[2] = x
      OBVIOUS
    <3> QED
      BY <1>1, <2>4, <3>1, <3>2, <3>3
  <2> QED
    BY <2>1, <2>3, <2>4
<1> QED
  BY <1>3 DEF Noticed, Elements

\* During the final sync no change escapes it, or a tab that is known stands in its way.
LEMMA CoversStep ==
  ASSUME TypeOK, FinalSyncCovers, NEW t \in Tabs, TabStep(t), NEW s \in Tabs,
         tab[s].pc = "syncing", tab'[s].pc = "syncing"
  PROVE  \/ dbs'[tab'[s].name].changes \ tab'[s].covered \subseteq exposed'
         \/ \E x \in Tabs : Noticed(s, x)'
<1> DEFINE n == tab[s].name
<1>1. n \in Names /\ tab[s] \in Page
  BY PageFields DEF TypeOK
<1>2. tab'[s].name = n /\ tab'[s].covered = tab[s].covered
  <2>1. CASE s # t
    BY <2>1, OwnPage DEF OthersKept
  <2>2. CASE s = t
    BY <2>2, OwnPage, ListedPage, ResolvedPage, OpenedPage DEF EndedPage, FreshPage, GoesOn
  <2> QED
    BY <2>1, <2>2
<1>3. Alive(s) /\ Alive(s)'
  BY DEF Alive
<1>4. exposed \subseteq exposed'
  BY SafeGrows
<1>5. CASE dbs[n].changes \ tab[s].covered \subseteq exposed
  <2>1. CASE dbs'[n].changes \subseteq dbs[n].changes
    BY <1>2, <1>4, <1>5, <2>1
  <2>2. CASE Edit(t) /\ n = tab[t].name /\ dbs'[n].changes = dbs[n].changes \cup {edits + 1}
    <3>1. exposed' = IF Exposed(t) THEN exposed \cup {edits + 1} ELSE exposed
      BY <2>2 DEF Edit
    <3>2. CASE Noticed(s, t)
      <4>1. UNCHANGED <<tab, known, inbox>>
        BY <2>2 DEF Edit, channelVars
      <4> QED
        BY <3>2, <4>1 DEF Noticed, Alive
    <3>3. CASE ~Noticed(s, t)
      <4>1. Exposed(t)
        BY <2>2, <3>3 DEF Exposed
      <4> QED
        BY <1>2, <1>5, <2>2, <3>1, <4>1
    <3> QED
      BY <3>2, <3>3
  <2> QED
    BY <1>1, <2>1, <2>2, ChangesStep
<1>6. CASE \E x \in Tabs : Noticed(s, x)
  <2>1. PICK x \in Tabs : Noticed(s, x)
    BY <1>6
  <2>2. CASE Alive(x)' /\ (RemoveStaleTabs(t) => x \in known'[s])
    BY <1>3, <2>1, <2>2, StaysNoticed
  <2>4. CASE RemoveStaleTabs(t) /\ x \notin known'[s]
    <3>1. PICK y \in known[t] :
            /\ known' = [known EXCEPT ![t] = known[t] \ {y}]
            /\ exposed' = IF Alive(y) /\ tab[t].pc = "syncing"
                          THEN exposed \cup (dbs[tab[t].name].changes \ tab[t].covered)
                          ELSE exposed
      BY <2>4 DEF RemoveStaleTabs
    <3>2. x \in known[s] /\ Alive(x)
      BY <2>1 DEF Noticed
    <3>3. s = t /\ y = x
      BY <2>4, <3>1, <3>2 DEF TypeOK
    <3>4. dbs[n].changes \ tab[s].covered \subseteq exposed'
      BY <3>1, <3>2, <3>3
    <3>5. dbs' = dbs
      BY <2>4 DEF RemoveStaleTabs, deviceVars
    <3> QED
      BY <1>2, <3>4, <3>5
  <2>3. CASE ~Alive(x)'
    <3>1. Alive(x) /\ s # x
      BY <1>3, <2>1, <2>3 DEF Noticed
    <3>2. x = t
      BY <2>3, <3>1, OwnPage DEF OthersKept, Alive, Open
    <3>3. LeftBehind(t) \subseteq exposed'
      BY <2>3, <3>1, <3>2, SafeGrows
    <3>4. dbs[n].changes \ tab[s].covered \subseteq LeftBehind(t)
      BY <3>1, <3>2 DEF LeftBehind
    <3>5. ~Edit(t)
      BY <2>3, <3>1, <3>2 DEF Edit, Alive
    <3>6. dbs'[n].changes \subseteq dbs[n].changes
      BY <1>1, <3>5, ChangesStep
    <3> QED
      BY <1>2, <3>3, <3>4, <3>6
  <2> QED
    BY <2>2, <2>3, <2>4
<1> QED
  BY <1>5, <1>6 DEF FinalSyncCovers

\* Once a database is about to be deleted, nothing unsafe comes into it.
LEMMA DestroyingStep ==
  ASSUME TypeOK, FinalSyncCovers, NEW t \in Tabs, TabStep(t), NEW s \in Tabs,
         tab[s].pc = "destroying", tab'[s].pc = "destroying"
  PROVE  dbs'[tab'[s].name].changes \subseteq Safe'
<1> DEFINE n == tab[s].name
<1>1. n \in Names /\ dbs[n].changes \subseteq Safe
  BY PageFields DEF TypeOK, FinalSyncCovers
<1>2. tab'[s].name = n
  <2>1. CASE s # t
    BY <2>1, OwnPage DEF OthersKept
  <2>2. CASE s = t
    BY <2>2, OwnPage, ListedPage, ResolvedPage, OpenedPage DEF EndedPage, FreshPage, GoesOn
  <2> QED
    BY <2>1, <2>2
<1>3. Safe \subseteq Safe'
  BY SafeGrows
<1>4. CASE Edit(t) /\ n = tab[t].name /\ dbs'[n].changes = dbs[n].changes \cup {edits + 1}
  <2>1. Exposed(t)
    BY <1>4 DEF Exposed
  <2>2. edits + 1 \in Safe'
    BY <1>4, <2>1 DEF Edit, Safe
  <2> QED
    BY <1>1, <1>2, <1>3, <1>4, <2>2
<1>5. CASE dbs'[n].changes \subseteq dbs[n].changes
  BY <1>1, <1>2, <1>3, <1>5
<1> QED
  BY <1>1, <1>4, <1>5, ChangesStep

\* FinalSyncCovers is inductive.
LEMMA CoversNext == TypeOK /\ FinalSyncCovers /\ [Next]_vars => FinalSyncCovers'
<1> SUFFICES ASSUME TypeOK, FinalSyncCovers, [Next]_vars PROVE FinalSyncCovers'
  OBVIOUS
<1>1. ASSUME NEW t \in Tabs, TabStep(t) PROVE FinalSyncCovers'
  <2>1. ASSUME NEW s \in Tabs, tab'[s].pc = "syncing"
        PROVE  \/ dbs'[tab'[s].name].changes \ tab'[s].covered \subseteq exposed'
               \/ \E x \in Tabs : Noticed(s, x)'
    <3>1. CASE tab[s].pc = "syncing"
      BY <1>1, <2>1, <3>1, CoversStep
    <3>2. CASE tab[s].pc # "syncing"
      <4>1. s = t
        BY <1>1, <2>1, <3>2, OwnPage DEF OthersKept
      <4>2. Confirm(t)
        BY <1>1, <2>1, <3>2, <4>1, OwnPage, ListedPage, ResolvedPage, OpenedPage, OfferedPage,
           SyncedPage, DeletedPage DEF EndedPage, FreshPage
      <4>3. tab'[t].covered = dbs[tab[t].name].changes /\ tab'[t].name = tab[t].name
        BY <2>1, <4>1, <4>2, ConfirmedPage DEF SamePage
      <4>4. dbs' = dbs
        BY <4>2 DEF Confirm, deviceVars
      <4> QED
        BY <4>1, <4>3, <4>4
    <3> QED
      BY <3>1, <3>2
  <2>2. ASSUME NEW s \in Tabs, tab'[s].pc = "destroying"
        PROVE  dbs'[tab'[s].name].changes \subseteq Safe'
    <3>1. CASE tab[s].pc = "destroying"
      BY <1>1, <2>2, <3>1, DestroyingStep
    <3>2. CASE tab[s].pc # "destroying"
      <4>1. s = t
        BY <1>1, <2>2, <3>2, OwnPage DEF OthersKept
      <4>2. FinalSyncFails(t) \/ FinalSyncCompletes(t)
        BY <1>1, <2>2, <3>2, <4>1, OwnPage, ListedPage, ResolvedPage, OpenedPage, OfferedPage,
           ConfirmedPage, DeletedPage DEF EndedPage, FreshPage
      <4>3. /\ tab[t].pc = "syncing" /\ known[t] = {} /\ tab'[t].name = tab[t].name
            /\ server' = server \cup (tab[t].covered \ denied)
        BY <2>2, <4>1, <4>2, SyncedPage DEF SamePage
      <4>4. dbs[tab[t].name].changes \ tab[t].covered \subseteq exposed
        BY <4>3 DEF FinalSyncCovers, Noticed
      <4>5. dbs' = dbs
        BY <4>2 DEF FinalSyncFails, FinalSyncCompletes, deviceVars
      <4>6. denied \subseteq denied' /\ exposed \subseteq exposed'
        BY <1>1, SafeGrows
      <4> QED
        BY <4>1, <4>3, <4>4, <4>5, <4>6 DEF Safe
    <3> QED
      BY <3>1, <3>2
  <2> QED
    BY <2>1, <2>2 DEF FinalSyncCovers
<1>2. CASE Toggle \/ NameAccount \/ UNCHANGED vars
  <2>1. UNCHANGED <<dbs, tab, exposed, known, inbox, server, denied>>
    BY <1>2 DEF Toggle, NameAccount, vars, deviceVars, channelVars, historyVars, envVars
  <2> QED
    BY <2>1 DEF FinalSyncCovers, Noticed, Alive, Safe
<1> QED
  BY <1>1, <1>2 DEF Next, TabStep

\* No step loses a local change.
LEMMA LostNext == TypeOK /\ FinalSyncCovers /\ NothingIsLost /\ [Next]_vars => NothingIsLost'
<1> SUFFICES ASSUME TypeOK, FinalSyncCovers, NothingIsLost, [Next]_vars PROVE NothingIsLost'
  OBVIOUS
<1>1. ASSUME NEW t \in Tabs, TabStep(t) PROVE NothingIsLost'
  <2> SUFFICES ASSUME NEW e \in 1..edits'
               PROVE  \/ e \in server' \/ \E n \in Names : e \in dbs'[n].changes
                      \/ e \in denied' \cup exposed' \cup given'
    BY DEF NothingIsLost, Kept
  <2>1. /\ server \subseteq server' /\ denied \subseteq denied' /\ given \subseteq given'
        /\ exposed \subseteq exposed' /\ Safe \subseteq Safe'
    BY <1>1, SafeGrows
  <2>2. CASE e \in 1..edits
    <3>1. CASE e \in server \cup denied \cup exposed \cup given
      BY <2>1, <3>1
    <3>2. CASE \E n \in Names : e \in dbs[n].changes
      <4>1. PICK n \in Names : e \in dbs[n].changes
        BY <3>2
      <4>2. CASE tab[t].pc = "destroying" /\ n = tab[t].name
        <5>1. e \in Safe'
          BY <2>1, <4>1, <4>2 DEF FinalSyncCovers
        <5> QED
          BY <5>1 DEF Safe
      <4> QED
        BY <1>1, <4>1, <4>2, ChangesStep
    <3> QED
      BY <2>2, <3>1, <3>2 DEF NothingIsLost, Kept
  <2>3. CASE e \notin 1..edits
    <3>1. Edit(t) \/ edits' = edits
      BY <1>1 DEF TabStep, Receive, Ping, RemoveStaleTabs, Load, Close, FindExistingDbs, Resolve,
         OpenDatabase, Sync, Migrate, OfferMigration, Confirm, FinalSyncFails,
         FinalSyncCompletes, DeleteLegacyDb, DeletionFails, FinishMigration, MarkResetPending,
         historyVars
    <3>2. Edit(t) /\ e = edits + 1
      <4>1. Edit(t) => edits' = edits + 1
        BY DEF Edit
      <4> QED
        BY <2>3, <3>1, <4>1 DEF TypeOK
    <3>3. tab[t].name \in Names
      BY PageFields DEF TypeOK
    <3>4. e \in dbs'[tab[t].name].changes
      BY <3>2, <3>3 DEF Edit, TypeOK
    <3> QED
      BY <3>3, <3>4
  <2> QED
    BY <2>2, <2>3
<1>2. CASE Toggle \/ NameAccount \/ UNCHANGED vars
  <2>1. UNCHANGED <<dbs, edits, server, denied, exposed, given>>
    BY <1>2 DEF Toggle, NameAccount, vars, deviceVars, historyVars, envVars
  <2> QED
    BY <2>1 DEF NothingIsLost, Kept
<1> QED
  BY <1>1, <1>2 DEF Next, TabStep

\* NothingIsLost holds in every reachable state: whatever a migration deletes is on the
\* server, except for changes that it could not know of and those the server refuses; and
\* nothing else but a reset loses a change.
THEOREM NothingLost == Spec => []NothingIsLost
<1>1. Init => FinalSyncCovers /\ NothingIsLost
  <2>1. Init => FinalSyncCovers
    BY DEF Init, FinalSyncCovers, NoTab
  <2>2. Init => NothingIsLost
    BY DEF Init, NothingIsLost
  <2> QED
    BY <2>1, <2>2
<1>2. TypeOK /\ FinalSyncCovers /\ [Next]_vars => FinalSyncCovers'
  BY CoversNext
<1>3. TypeOK /\ FinalSyncCovers /\ NothingIsLost /\ [Next]_vars => NothingIsLost'
  BY LostNext
<1> QED
  BY <1>1, <1>2, <1>3, TypeCorrect, PTL DEF Spec

-----------------------------------------------------------------------------
(***************************************************************************)
(* NothingIsForgotten, as long as the deployment is Steady                 *)
(***************************************************************************)

\* A page that has, or is about to have, the legacy database of a named account open, and
\* one that has the new database instead
OnLegacy(t) ==
    tab[t].name = "byName" /\ tab[t].pc \in {"resolved", "open", "asked", "syncing", "destroying"}
OnNew(t) ==
    /\ tab[t].adapter = "indexeddb" /\ tab[t].deployment.username
    /\ tab[t].pc \in {"resolved", "open"}

\* A database that is open is there, and of the adapter that it is opened with.
DatabasesOK ==
    /\ \A n \in Names : dbs[n].adapter = "none" => dbs[n].changes = {}
    /\ \A t \in Tabs : Open(t) => dbs[tab[t].name].adapter = tab[t].adapter

\* A page has the configuration of its start, which is still that of the deployment unless
\* that has changed.
DeploymentsOK ==
    \A t \in Tabs : Alive(t) =>
        LET d == tab[t].deployment
        IN  /\ d.listable = deployment.listable
            /\ d.username => deployment.username
            /\ ~named => d.username = deployment.username
            /\ toggles = 0 => d.useIndexeddb = deployment.useIndexeddb

\* Only legacy databases are migrated, and only when the new adapter is configured.
MigratingOK ==
    \A t \in Tabs :
        /\ tab[t].pc \in {"asked", "syncing", "destroying", "deleted"} \/ tab[t].pending
              => tab[t].deployment.useIndexeddb /\ tab[t].adapter = "idb"
        /\ tab[t].pc \in {"login", "listed"} => tab[t].name = "byId" /\ tab[t].adapter = "indexeddb"

\* No database is named by the account's name before it has one.  Neither is it later when
\* the databases can be listed, as the one named by the id is then found.
NoName ==
    \/ ~deployment.username
    \/ \E t \in Tabs : Alive(t) /\ ~tab[t].deployment.username
    \/ named /\ deployment.useIndexeddb /\ deployment.listable
NameUnused ==
    NoName => /\ dbs["byName"].adapter = "none"
              /\ \A t \in Tabs : tab[t].listed["byName"] = "none" /\ tab[t].name = "byId"

\* An account that has had its name from the start has no legacy database named by the id.
IdUnused ==
    deployment.username /\ ~named =>
        /\ dbs["byId"].adapter # "idb"
        /\ \A t \in Tabs : /\ tab[t].listed["byId"] # "idb"
                           /\ tab[t].name = "byId" => tab[t].adapter = "indexeddb"

\* What a page must have found to choose its database
ResolvedOK ==
    \A t \in Tabs :
        LET d == tab[t].deployment
        IN  /\ OnLegacy(t) =>
                  /\ d.username
                  /\ d.useIndexeddb /\ d.listable => tab[t].listed["byName"] = "idb"
            /\ tab[t].name = "byId" /\ tab[t].adapter = "idb" /\ d.username
                  => d.listable /\ d.useIndexeddb
            /\ OnNew(t) => d.useIndexeddb

\* When a page has not found a legacy database there is still none, or one that was
\* created by a page that had found the deleted one.
ListedOK ==
    \A t \in Tabs :
        LET d == tab[t].deployment
        IN  /\ tab[t].pc = "listed" /\ d.useIndexeddb /\ d.listable /\ d.username
            /\ tab[t].listed["byName"] = "none"
            => dbs["byName"].adapter = "none" \/ "byName" \in recreated

\* Whatever is in a legacy database that was created again, or while the page that has
\* deleted it has not told the others, was exposed.
RecreatedOK ==
    "byName" \in recreated \/ (\E t \in Tabs : tab[t].pc = "deleted" /\ tab[t].name = "byName")
    => dbs["byName"].changes \subseteq exposed

\* Once the account is migrated, changes in another page that has the legacy database, or
\* is about to open it again, are exposed.
Doomed(t) ==
    /\ tab[t].deployment.useIndexeddb
    /\ \/ "byName" \in recreated
       \/ Reloads(t)
       \/ tab[t].deployment.listable /\ tab[t].pc = "resolved" /\ dbs["byName"].adapter = "none"
DoomedOK == migrated => \A t \in Tabs : OnLegacy(t) => Doomed(t)

\* Then the legacy database is safe, and as long as the new one is in use.
SafeOK ==
    migrated \/ (\E t \in Tabs : OnNew(t)) => dbs["byName"].changes \subseteq Safe
FlagOK == Constant => \A t \in Tabs : OnNew(t) => migrated

MigrationInv ==
    /\ DatabasesOK /\ DeploymentsOK /\ MigratingOK /\ NameUnused /\ IdUnused /\ ResolvedOK
    /\ ListedOK /\ RecreatedOK /\ DoomedOK /\ SafeOK /\ FlagOK

\* What a page keeps
SameDb(t) ==
    /\ tab'[t].deployment = tab[t].deployment /\ tab'[t].listed = tab[t].listed
    /\ tab'[t].name = tab[t].name /\ tab'[t].adapter = tab[t].adapter
    /\ tab'[t].pending => tab[t].pending

\* A page that is open after a step was there before, unless it has just been loaded.
LEMMA PageBefore ==
  ASSUME TypeOK, NEW t \in Tabs, TabStep(t), NEW s \in Tabs, Alive(s)'
  PROVE  \/ s = t /\ (Load(t) \/ FindExistingDbs(t) \/ Resolve(t))
         \/ /\ SameDb(s) /\ Alive(s)
            /\ \/ tab'[s].pc = tab[s].pc
               \/ tab'[s].pc \in {"cutOff", "unusable"}
               \/ s = t /\ OpenDatabase(t) /\ tab[s].pc = "resolved" /\ tab'[s].pc = "open"
               \/ /\ s = t /\ tab[s].pc \in {"open", "asked", "syncing"}
                  /\ tab'[s].pc \in {"open", "asked", "syncing", "destroying"}
                  /\ tab[s].pc = "open" => tab[s].pending
               \/ /\ s = t /\ DeleteLegacyDb(t)
                  /\ tab[s].pc = "destroying" /\ tab'[s].pc = "deleted"
<1>1. CASE s # t
  BY <1>1, OwnPage DEF OthersKept, SameDb, Alive, Open
<1>2. CASE s = t
  <2>1. CASE tab'[t] = tab[t]
    BY <1>2, <2>1 DEF SameDb, Alive
  <2>2. ~EndedPage(t)
    BY <1>2 DEF EndedPage, Alive
  <2>3. CASE OpenDatabase(t)
    BY <1>2, <2>3, OpenedPage DEF SamePage, SameDb, Alive
  <2>4. CASE OfferMigration(t)
    <3>1. tab[t].pending
      BY <2>4 DEF OfferMigration
    <3> QED
      BY <1>2, <2>4, <3>1, OfferedPage DEF SamePage, SameDb, Alive
  <2>5. CASE Confirm(t)
    BY <1>2, <2>5, ConfirmedPage DEF SamePage, SameDb, Alive
  <2>6. CASE FinalSyncFails(t) \/ FinalSyncCompletes(t)
    BY <1>2, <2>6, SyncedPage DEF SamePage, SameDb, Alive
  <2>7. CASE DeleteLegacyDb(t)
    <3>1. tab'[t].pc = "deleted" /\ tab[t].pc = "destroying" /\ SameDb(t)
      BY <2>7, DeletedPage DEF SameDb
    <3> QED
      BY <1>2, <2>7, <3>1 DEF Alive
  <2>8. CASE Load(t) \/ FindExistingDbs(t) \/ Resolve(t)
    BY <1>2, <2>8
  <2> QED
    BY <2>1, <2>2, <2>3, <2>4, <2>5, <2>6, <2>7, <2>8, OwnPage
<1> QED
  BY <1>1, <1>2

\* What a tab does to the rest of the state
LEMMA RestStep ==
  ASSUME TypeOK, NEW t \in Tabs, TabStep(t)
  PROVE  /\ deployment' = deployment /\ toggles' = toggles /\ named' = named
         /\ resets' = 0 => resets = 0
         /\ recreated \subseteq recreated'
         /\ recreated' = recreated \/ OpenDatabase(t)
         /\ migrated' => migrated \/ Resolve(t) \/ FinishMigration(t)
<1>1. resets \in Nat
  BY DEF TypeOK
<1>2. deployment' = deployment /\ toggles' = toggles /\ named' = named
  BY DEF TabStep, Receive, Ping, RemoveStaleTabs, Load, Close, FindExistingDbs, Resolve, OpenDatabase,
         Edit, Sync, Migrate, OfferMigration, Confirm, FinalSyncFails, FinalSyncCompletes,
         DeleteLegacyDb, DeletionFails, FinishMigration, MarkResetPending, historyVars, envVars
<1>3. resets' = resets \/ resets' = resets + 1
  BY DEF TabStep, Receive, Ping, RemoveStaleTabs, Load, Close, FindExistingDbs, Resolve, OpenDatabase,
         Edit, Sync, Migrate, OfferMigration, Confirm, FinalSyncFails, FinalSyncCompletes,
         DeleteLegacyDb, DeletionFails, FinishMigration, MarkResetPending, historyVars, envVars
<1>4. OpenDatabase(t) => recreated \subseteq recreated'
  BY DEF OpenDatabase
<1>5. recreated' = recreated \/ OpenDatabase(t)
  BY DEF TabStep, Receive, Ping, RemoveStaleTabs, Load, Close, FindExistingDbs, Resolve,
         Edit, Sync, Migrate, OfferMigration, Confirm, FinalSyncFails, FinalSyncCompletes,
         DeleteLegacyDb, DeletionFails, FinishMigration, MarkResetPending, historyVars, envVars
<1>6. migrated' \in {FALSE, migrated} \/ Resolve(t) \/ FinishMigration(t)
  BY DEF TabStep, Receive, Ping, RemoveStaleTabs, Load, Close, FindExistingDbs, OpenDatabase,
         Edit, Sync, Migrate, OfferMigration, Confirm, FinalSyncFails, FinalSyncCompletes,
         DeleteLegacyDb, DeletionFails, MarkResetPending, deviceVars
<1>7. resets' = 0 => resets = 0
  BY <1>1, <1>3
<1>8. recreated \subseteq recreated'
  BY <1>4, <1>5
<1>9. migrated' => migrated \/ Resolve(t) \/ FinishMigration(t)
  BY <1>6
<1> QED
  BY <1>2, <1>5, <1>7, <1>8, <1>9

\* What a tab does to a database: it creates it, or deletes it under the other pages.
LEMMA AdapterStep ==
  ASSUME TypeOK, NEW t \in Tabs, TabStep(t), NEW n \in Names
  PROVE  \/ dbs'[n].adapter = dbs[n].adapter
         \/ /\ OpenDatabase(t) /\ n = tab[t].name /\ dbs[n].adapter = "none"
            /\ dbs'[n].adapter = tab[t].adapter /\ dbs'[n].changes = dbs[n].changes
            /\ tab'[t].pc = "open" /\ (tab[t].listed[n] # "none" => n \in recreated')
         \/ /\ dbs'[n] = NoDb
            /\ \A s \in Tabs : tab'[s].name = n => ~Open(s)'
<1>1. /\ tab[t].name \in Names /\ tab[t].adapter \in Adapters
      /\ dbs \in [Names -> [adapter : Adapters \cup {"none"}, changes : SUBSET Changes]]
  BY PageFields DEF TypeOK
<1>2. CASE OpenDatabase(t)
  <2>1. CASE dbs[tab[t].name].adapter \notin {tab[t].adapter, "none"}
    BY <1>2, <2>1 DEF OpenDatabase
  <2>2. CASE dbs[tab[t].name].adapter \in {tab[t].adapter, "none"}
    <3>1. /\ dbs' = [dbs EXCEPT ![tab[t].name].adapter = tab[t].adapter]
          /\ recreated' = recreated \cup {m \in {tab[t].name} : tab[t].listed[tab[t].name] # "none"
                                                             /\ dbs[tab[t].name].adapter = "none"}
      BY <1>2, <2>2 DEF OpenDatabase
    <3>2. tab'[t].pc = "open"
      BY <1>2, <2>2, OpenedPage
    <3>3. CASE n # tab[t].name
      BY <1>1, <3>1, <3>3
    <3>4. CASE n = tab[t].name
      <4>1. dbs'[n].adapter = tab[t].adapter /\ dbs'[n].changes = dbs[n].changes
        BY <1>1, <3>1, <3>4
      <4> QED
        BY <1>2, <2>2, <3>1, <3>2, <3>4, <4>1
    <3> QED
      BY <3>3, <3>4
  <2> QED
    BY <2>1, <2>2
<1>3. CASE Edit(t)
  <2>1. dbs' = [dbs EXCEPT ![tab[t].name].changes = dbs[tab[t].name].changes \cup {edits + 1}]
    BY <1>3 DEF Edit
  <2> QED
    BY <1>1, <2>1
<1>4. ASSUME NEW names, OthersCutOff(t, names), ~Open(t)',
             dbs' = [m \in Names |-> IF m \in names THEN NoDb ELSE dbs[m]]
      PROVE  \/ dbs'[n].adapter = dbs[n].adapter
             \/ dbs'[n] = NoDb /\ \A s \in Tabs : tab'[s].name = n => ~Open(s)'
  <2>1. CASE n \notin names
    BY <1>4, <2>1
  <2>2. CASE n \in names
    BY <1>4, <2>2 DEF OthersCutOff, Open
  <2> QED
    BY <2>1, <2>2
<1>5. CASE Load(t)
  <2> DEFINE names == IF tab[t].reset THEN Names ELSE {}
  <2>1. dbs' = [m \in Names |-> IF m \in names THEN NoDb ELSE dbs[m]]
    BY <1>5 DEF Load
  <2>2. OthersCutOff(t, names) /\ ~Open(t)'
    BY <1>5, LoadedPage DEF Open
  <2> HIDE DEF names
  <2> QED
    BY <1>4, <2>1, <2>2
<1>6. CASE DeleteLegacyDb(t)
  <2>1. dbs' = [m \in Names |-> IF m \in {tab[t].name} THEN NoDb ELSE dbs[m]]
    BY <1>1, <1>6 DEF DeleteLegacyDb
  <2>2. OthersCutOff(t, {tab[t].name}) /\ ~Open(t)'
    BY <1>6, DeletedPage DEF Open
  <2> QED
    BY <1>4, <2>1, <2>2
<1>7. CASE DeletionFails(t)
  <2>1. PICK names \in {{}, {tab[t].name}} :
            /\ dbs' = [m \in Names |-> IF m \in names THEN NoDb ELSE dbs[m]]
            /\ tab' = [CutOff(t, names) EXCEPT ![t] = [NoTab EXCEPT !.reset = tab[t].reset]]
    BY <1>7 DEF DeletionFails
  <2>2. tab[t].reset \in BOOLEAN
    BY PageFields DEF TypeOK
  <2>3. OthersCutOff(t, names) /\ ~Open(t)'
    BY <2>1, <2>2, UndeletedPage DEF EndedPage, Open
  <2> QED
    BY <1>4, <2>1, <2>3
<1>8. CASE \/ Receive(t) \/ Ping(t) \/ RemoveStaleTabs(t) \/ Close(t) \/ FindExistingDbs(t) \/ Resolve(t)
           \/ Sync(t) \/ OfferMigration(t) \/ Confirm(t) \/ FinalSyncFails(t)
           \/ FinalSyncCompletes(t) \/ FinishMigration(t) \/ MarkResetPending(t)
  BY <1>8 DEF Receive, Ping, RemoveStaleTabs, Close, FindExistingDbs, Resolve, Sync, OfferMigration,
     Confirm, FinalSyncFails, FinalSyncCompletes, FinishMigration, MarkResetPending, deviceVars
<1> QED
  BY <1>2, <1>3, <1>5, <1>6, <1>7, <1>8 DEF TabStep, Migrate

\* What a page of a named account chooses, and one of an account without
Choice(d, listed, flag, config) ==
    /\ config.pending => d.useIndexeddb /\ config.adapter = "idb"
    /\ ~d.username => config.name = "byId"
    /\ d.username /\ d.useIndexeddb /\ d.listable /\ listed["byName"] = "none"
          => config.name = "byId"
    /\ config.name = "byName" =>
          /\ d.username /\ (d.useIndexeddb => ~flag)
          /\ d.useIndexeddb /\ d.listable => listed["byName"] = "idb"
          /\ config.adapter = "idb"
    /\ config.name = "byId" /\ config.adapter = "idb" /\ d.username
          => d.listable /\ d.useIndexeddb /\ listed["byId"] = "idb"
    /\ config.adapter = "indexeddb" /\ d.username => d.useIndexeddb
    /\ d.useIndexeddb /\ config.adapter = "indexeddb"
          => flag \/ (d.listable /\ listed[LegacyName(d)] # "idb")

\* The choice that resolveDbConfig() makes
LEMMA Chosen ==
  ASSUME NEW d \in Deployment, NEW listed \in [Names -> Adapters \cup {"none"}], NEW flag \in BOOLEAN,
         listed["byName"] # "indexeddb", NEW config, config = DbConfig(d, listed, flag)
  PROVE  /\ Choice(d, listed, flag, config)
         /\ d.useIndexeddb => (config = NewConfig <=> config.adapter = "indexeddb")
<1> USE DEF Choice
<1>1. "idb" # "indexeddb" /\ "byName" # "byId" /\ "byName" \in Names /\ "byId" \in Names
  BY DEF Names
<1>2. d.username \in BOOLEAN /\ d.useIndexeddb \in BOOLEAN /\ d.listable \in BOOLEAN
  BY DEF Deployment
<1>3. NewConfig.name = "byId" /\ NewConfig.adapter = "indexeddb" /\ ~NewConfig.pending
  BY DEF NewConfig, NewName
<1>4. CASE ~d.useIndexeddb
  <2>1. CASE Is(d, listed, LegacyName(d), "indexeddb")
    <3>1. config = NewConfig /\ ~d.username
      BY <1>1, <1>2, <1>4, <2>1 DEF DbConfig, Is, LegacyName
    <3> QED
      BY <1>3, <1>4, <3>1
  <2>2. CASE ~Is(d, listed, LegacyName(d), "indexeddb")
    <3>1. config = LegacyConfig(LegacyName(d), FALSE)
      BY <1>4, <2>2 DEF DbConfig
    <3>2. config.name = LegacyName(d) /\ config.adapter = "idb" /\ ~config.pending
      BY <3>1 DEF LegacyConfig
    <3> QED
      BY <1>1, <1>4, <3>2 DEF LegacyName
  <2> QED
    BY <2>1, <2>2
<1>5. CASE d.useIndexeddb /\ Is(d, listed, NewName, "idb")
  <2>1. config = LegacyConfig("byId", TRUE)
    BY <1>5 DEF DbConfig, NewName
  <2>2. config.name = "byId" /\ config.adapter = "idb" /\ config # NewConfig
    BY <1>1, <1>3, <2>1 DEF LegacyConfig
  <2>3. listed["byId"] = "idb" /\ d.listable
    BY <1>5 DEF Is, NewName
  <2> QED
    BY <1>1, <1>5, <2>2, <2>3
<1>6. CASE d.useIndexeddb /\ ~Is(d, listed, NewName, "idb") /\ (flag \/ FreshInstall(d, listed))
  <2>1. config = NewConfig
    BY <1>6 DEF DbConfig
  <2>2. flag \/ (d.listable /\ listed[LegacyName(d)] # "idb")
    BY <1>6 DEF FreshInstall
  <2> QED
    BY <1>1, <1>3, <1>6, <2>1, <2>2
<1>7. CASE d.useIndexeddb /\ ~Is(d, listed, NewName, "idb") /\ ~flag /\ ~FreshInstall(d, listed)
  <2>1. config = LegacyConfig(LegacyName(d), TRUE)
    BY <1>7 DEF DbConfig
  <2>2. config.name = LegacyName(d) /\ config.adapter = "idb" /\ config # NewConfig
    BY <1>1, <1>3, <2>1 DEF LegacyConfig
  <2>3. d.listable => listed[LegacyName(d)] = "idb"
    BY <1>7 DEF FreshInstall
  <2> QED
    BY <1>1, <1>2, <1>7, <2>2, <2>3 DEF LegacyName
<1> QED
  BY <1>4, <1>5, <1>6, <1>7

\* A page that gets its database has listed the databases, and chooses among them.
LEMMA ResolvedConfig ==
  ASSUME TypeOK, AdapterInv, NEW t \in Tabs, Resolve(t)
  PROVE  /\ tab'[t].deployment = tab[t].deployment /\ tab'[t].listed = tab[t].listed
         /\ tab[t].pc = "listed" /\ tab'[t].pc = "resolved"
         /\ Choice(tab[t].deployment, tab[t].listed, migrated, tab'[t])
         /\ migrated' => /\ tab[t].deployment.useIndexeddb
                         /\ migrated \/ tab'[t].adapter = "indexeddb"
         /\ tab[t].deployment.useIndexeddb /\ (migrated \/ tab'[t].adapter = "indexeddb")
               => migrated'
<1> DEFINE d == tab[t].deployment
           listed == tab[t].listed
           config == DbConfig(d, listed, migrated)
<1>1. /\ d \in Deployment /\ listed \in [Names -> Adapters \cup {"none"}]
      /\ migrated \in BOOLEAN /\ listed["byName"] # "indexeddb"
  BY PageFields DEF TypeOK, AdapterInv
<1>2. /\ tab'[t].deployment = d /\ tab'[t].listed = listed /\ tab'[t].pc = "resolved"
      /\ tab'[t].name = config.name /\ tab'[t].adapter = config.adapter
      /\ tab'[t].pending = config.pending
      /\ migrated' = (FlagOf(d, migrated) \/ (d.useIndexeddb /\ config = NewConfig))
  BY ResolvedPage
<1> HIDE DEF config
<1>3. /\ Choice(d, listed, migrated, config)
      /\ d.useIndexeddb => (config = NewConfig <=> config.adapter = "indexeddb")
  BY <1>1, Chosen DEF config
<1>4. Choice(d, listed, migrated, tab'[t])
  BY <1>2, <1>3 DEF Choice
<1>5. tab[t].pc = "listed"
  BY DEF Resolve
<1>6. /\ migrated' => d.useIndexeddb /\ (migrated \/ config.adapter = "indexeddb")
      /\ d.useIndexeddb /\ (migrated \/ config.adapter = "indexeddb") => migrated'
  BY <1>2, <1>3 DEF FlagOf
<1> QED
  BY <1>2, <1>4, <1>5, <1>6

\* Two pages at the same time have the same configuration.
LEMMA SameConfig ==
  ASSUME Steady, DeploymentsOK, NEW s \in Tabs, NEW t \in Tabs, s # t, Alive(s), Alive(t)
  PROVE  /\ Constant /\ tab[s].deployment.username = tab[t].deployment.username
         /\ tab[s].deployment.useIndexeddb = tab[t].deployment.useIndexeddb
         /\ tab[s].deployment.listable = tab[t].deployment.listable
<1>1. Constant
  BY DEF Steady, Alone
<1> QED
  BY <1>1 DEF DeploymentsOK, Constant

\* Databases that are open stay as they are.
LEMMA DatabasesStep ==
  ASSUME TypeOK, NEW t \in Tabs, TabStep(t), DatabasesOK
  PROVE  DatabasesOK'
<1>1. ASSUME NEW n \in Names, dbs'[n].adapter = "none" PROVE dbs'[n].changes = {}
  <2>1. CASE dbs'[n].adapter = dbs[n].adapter
    <3>1. dbs[n].changes = {}
      BY <1>1, <2>1 DEF DatabasesOK
    <3>2. ~(Edit(t) /\ n = tab[t].name)
      <4>1. Edit(t) => Open(t)
        BY DEF Edit, Open
      <4>2. tab[t].adapter # "none"
        BY PageFields DEF TypeOK, Adapters
      <4> QED
        BY <1>1, <2>1, <4>1, <4>2 DEF DatabasesOK
    <3> QED
      BY <3>1, <3>2, ChangesStep
  <2>2. CASE dbs'[n].adapter = tab[t].adapter
    <3>1. tab[t].adapter # "none"
      BY PageFields DEF TypeOK, Adapters
    <3> QED
      BY <1>1, <2>2, <3>1
  <2>3. CASE dbs'[n] = NoDb
    BY <2>3 DEF NoDb
  <2> QED
    BY <2>1, <2>2, <2>3, AdapterStep
<1>2. ASSUME NEW s \in Tabs, Open(s)' PROVE dbs'[tab'[s].name].adapter = tab'[s].adapter
  <2>1. Alive(s)'
    BY <1>2 DEF Open, Alive
  <2>2. tab'[s].pc \in {"open", "asked", "syncing", "destroying"}
    BY <1>2 DEF Open
  <2>3. SameDb(s)
    BY <2>1, <2>2, PageBefore, LoadedPage, ListedPage, ResolvedPage
  <2>4. tab[s].name \in Names /\ tab[s].adapter \in Adapters /\ "none" \notin Adapters
    BY PageFields DEF TypeOK, Adapters
  <2>5. CASE Open(s)
    <3>1. dbs[tab[s].name].adapter = tab[s].adapter
      BY <2>5 DEF DatabasesOK
    <3>2. CASE dbs'[tab[s].name].adapter = dbs[tab[s].name].adapter
      BY <2>3, <3>1, <3>2 DEF SameDb
    <3> QED
      BY <1>2, <2>3, <2>4, <3>1, <3>2, AdapterStep DEF SameDb
  <2>6. CASE ~Open(s)
    <3>1. s = t /\ OpenDatabase(t) /\ tab'[t].pc = "open"
      BY <2>1, <2>2, <2>6, PageBefore, LoadedPage, ListedPage, ResolvedPage DEF Open
    <3>2. dbs[tab[t].name].adapter \in {tab[t].adapter, "none"}
      BY <3>1, OpenedPage
    <3>3. dbs' = [dbs EXCEPT ![tab[t].name].adapter = tab[t].adapter]
      BY <3>1, <3>2 DEF OpenDatabase
    <3> QED
      BY <2>3, <2>4, <3>1, <3>3 DEF SameDb, TypeOK
  <2> QED
    BY <2>5, <2>6
<1> QED
  BY <1>1, <1>2 DEF DatabasesOK

\* A page that is loaded has the configuration of the deployment.
LEMMA DeploymentsStep ==
  ASSUME TypeOK, NEW t \in Tabs, TabStep(t), DeploymentsOK
  PROVE  DeploymentsOK'
<1> SUFFICES ASSUME NEW s \in Tabs, Alive(s)'
             PROVE  LET d == tab'[s].deployment
                    IN  /\ d.listable = deployment.listable
                        /\ d.username => deployment.username
                        /\ ~named => d.username = deployment.username
                        /\ toggles = 0 => d.useIndexeddb = deployment.useIndexeddb
  BY RestStep DEF DeploymentsOK
<1>1. CASE s = t /\ Load(t)
  BY <1>1, LoadedPage
<1>2. CASE s = t /\ (FindExistingDbs(t) \/ Resolve(t))
  <2>1. tab'[t].deployment = tab[t].deployment
    BY <1>2, ListedPage, ResolvedPage
  <2>2. Alive(t)
    BY <1>2 DEF FindExistingDbs, Resolve, Alive
  <2> QED
    BY <1>2, <2>1, <2>2 DEF DeploymentsOK
<1>3. CASE SameDb(s) /\ Alive(s)
  BY <1>3 DEF SameDb, DeploymentsOK
<1> QED
  BY <1>1, <1>2, <1>3, PageBefore

\* A page migrates what it has resolved as pending.
LEMMA MigratingStep ==
  ASSUME TypeOK, AdapterInv, NEW t \in Tabs, TabStep(t), MigratingOK
  PROVE  MigratingOK'
<1> SUFFICES ASSUME NEW s \in Tabs
             PROVE  /\ \/ tab'[s].pc \in {"asked", "syncing", "destroying", "deleted"}
                       \/ tab'[s].pending
                       => tab'[s].deployment.useIndexeddb /\ tab'[s].adapter = "idb"
                    /\ tab'[s].pc \in {"login", "listed"}
                       => tab'[s].name = "byId" /\ tab'[s].adapter = "indexeddb"
  BY DEF MigratingOK
<1>1. CASE ~Alive(s)'
  <2>1. CASE s = t
    <3>1. EndedPage(t) \/ tab'[t] = tab[t]
      BY <1>1, <2>1, OwnPage, ListedPage, ResolvedPage, OpenedPage DEF Alive, FreshPage, GoesOn
    <3> QED
      BY <1>1, <2>1, <3>1 DEF EndedPage, Alive, MigratingOK
  <2>2. CASE s # t
    <3>1. tab'[s].pc = tab[s].pc /\ SameDb(s)
      BY <1>1, <2>2, OwnPage DEF OthersKept, Alive, SameDb
    <3> QED
      BY <1>1, <3>1 DEF SameDb, Alive, MigratingOK
  <2> QED
    BY <2>1, <2>2
<1>2. CASE s = t /\ Load(t)
  BY <1>2, LoadedPage
<1>3. CASE s = t /\ FindExistingDbs(t)
  <2>1. /\ tab'[t].pc = "listed" /\ tab'[t].name = tab[t].name /\ tab'[t].adapter = tab[t].adapter
        /\ tab'[t].pending = tab[t].pending /\ tab'[t].deployment = tab[t].deployment
    BY <1>3, ListedPage
  <2>2. tab[t].pc = "login"
    BY <1>3 DEF FindExistingDbs
  <2> QED
    BY <1>3, <2>1, <2>2 DEF MigratingOK
<1>4. CASE s = t /\ Resolve(t)
  BY <1>4, ResolvedConfig DEF Choice
<1>5. CASE Alive(s)' /\ ~(s = t /\ (Load(t) \/ FindExistingDbs(t) \/ Resolve(t)))
  <2>1. SameDb(s)
    BY <1>5, PageBefore
  <2>2. tab'[s].pc \in {"asked", "syncing", "destroying", "deleted"}
        => tab[s].pc \in {"asked", "syncing", "destroying", "deleted"} \/ tab[s].pending
    BY <1>5, PageBefore
  <2>3. tab'[s].pc \in {"login", "listed"} => tab[s].pc \in {"login", "listed"}
    BY <1>5, PageBefore
  <2> QED
    BY <2>1, <2>2, <2>3 DEF SameDb, MigratingOK
<1> QED
  BY <1>1, <1>2, <1>3, <1>4, <1>5

\* No database is named by the account's name before it has one.
LEMMA NameStep ==
  ASSUME TypeOK, AdapterInv, Steady, NEW t \in Tabs, TabStep(t), DeploymentsOK, MigratingOK,
         NameUnused
  PROVE  NameUnused'
<1> SUFFICES ASSUME NoName'
             PROVE  /\ dbs'["byName"].adapter = "none"
                    /\ \A s \in Tabs : tab'[s].listed["byName"] = "none" /\ tab'[s].name = "byId"
  BY DEF NameUnused
<1>1. NoName
  <2>1. ASSUME NEW s \in Tabs, Alive(s)', ~tab'[s].deployment.username PROVE NoName
    <3>1. CASE s = t /\ Load(t)
      BY <2>1, <3>1, LoadedPage DEF NoName
    <3>2. CASE s = t /\ (FindExistingDbs(t) \/ Resolve(t))
      <4>1. tab'[t].deployment = tab[t].deployment
        BY <3>2, ListedPage, ResolvedPage
      <4>2. Alive(t)
        BY <3>2 DEF FindExistingDbs, Resolve, Alive
      <4> QED
        BY <2>1, <3>2, <4>1, <4>2 DEF NoName
    <3>3. CASE SameDb(s) /\ Alive(s)
      BY <2>1, <3>3 DEF SameDb, NoName
    <3> QED
      BY <2>1, <3>1, <3>2, <3>3, PageBefore
  <2> QED
    BY <2>1, RestStep DEF NoName
<1>2. /\ dbs["byName"].adapter = "none" /\ "byName" \in Names /\ "byName" # "byId"
      /\ \A s \in Tabs : tab[s].listed["byName"] = "none" /\ tab[s].name = "byId"
  BY <1>1 DEF NameUnused, Names
<1>3. dbs'["byName"].adapter = "none"
  BY <1>2, AdapterStep DEF NoDb
<1>4. ASSUME Resolve(t) PROVE tab'[t].name = "byId"
  <2>1. /\ Choice(tab[t].deployment, tab[t].listed, migrated, tab'[t]) /\ tab[t].pc = "listed"
        /\ tab'[t].name \in Names
    BY <1>4, ResolvedConfig, ResolvedPage, PageFields
  <2>2. Alive(t)
    BY <2>1 DEF Alive
  <2>3. CASE ~tab[t].deployment.username
    BY <2>1, <2>3 DEF Choice
  <2>4. CASE tab[t].deployment.username
    <3>1. deployment.username
      BY <2>2, <2>4 DEF DeploymentsOK
    <3>2. ASSUME NEW s \in Tabs, Alive(s), ~tab[s].deployment.username PROVE FALSE
      BY <2>2, <2>4, <3>2, SameConfig
    <3>3. named /\ deployment.useIndexeddb /\ deployment.listable
      BY <1>1, <3>1, <3>2 DEF NoName
    <3>4. toggles = 0
      BY <3>3 DEF Steady
    <3>5. tab[t].deployment.useIndexeddb /\ tab[t].deployment.listable
      BY <2>2, <3>3, <3>4 DEF DeploymentsOK
    <3> QED
      BY <1>2, <2>1, <2>4, <3>5 DEF Choice
  <2> QED
    BY <2>3, <2>4
<1>5. ASSUME NEW s \in Tabs PROVE tab'[s].listed["byName"] = "none" /\ tab'[s].name = "byId"
  <2>1. CASE s # t
    BY <1>2, <2>1, OwnPage DEF OthersKept
  <2>2. CASE s = t
    <3>1. CASE EndedPage(t) \/ FreshPage(t)
      BY <1>2, <2>2, <3>1 DEF EndedPage, FreshPage
    <3>2. CASE FindExistingDbs(t)
      <4>1. /\ tab'[t].listed = [n \in Names |-> dbs[n].adapter] /\ tab'[t].name = tab[t].name
            /\ tab'[t].adapter = tab[t].adapter
        BY <3>2, ListedPage
      <4>2. tab'[t].listed["byName"] = dbs["byName"].adapter
        BY <1>2, <4>1
      <4> QED
        BY <1>2, <2>2, <4>1, <4>2
    <3>3. CASE Resolve(t)
      BY <1>2, <1>4, <2>2, <3>3, ResolvedPage
    <3>4. CASE OpenDatabase(t)
      BY <1>2, <2>2, <3>4, OpenedPage DEF SamePage
    <3>5. CASE tab'[t] = tab[t] \/ GoesOn(t)
      BY <1>2, <2>2, <3>5 DEF GoesOn
    <3> QED
      BY <3>1, <3>2, <3>3, <3>4, <3>5, OwnPage
  <2> QED
    BY <2>1, <2>2
<1> QED
  BY <1>3, <1>5

\* An account with a name does not start to name its legacy database by the id.
LEMMA IdStep ==
  ASSUME TypeOK, AdapterInv, NEW t \in Tabs, TabStep(t), DeploymentsOK, IdUnused
  PROVE  IdUnused'
<1> SUFFICES ASSUME deployment.username, ~named
             PROVE  /\ dbs'["byId"].adapter # "idb"
                    /\ \A s \in Tabs : /\ tab'[s].listed["byId"] # "idb"
                                       /\ tab'[s].name = "byId" => tab'[s].adapter = "indexeddb"
  BY RestStep DEF IdUnused
<1>1. /\ dbs["byId"].adapter # "idb" /\ "byId" \in Names /\ "idb" # "indexeddb"
      /\ \A s \in Tabs : /\ tab[s].listed["byId"] # "idb"
                         /\ tab[s].name = "byId" => tab[s].adapter = "indexeddb"
  BY DEF IdUnused, Names
<1>2. dbs'["byId"].adapter # "idb"
  BY <1>1, AdapterStep DEF NoDb
<1>3. ASSUME Resolve(t), tab'[t].name = "byId" PROVE tab'[t].adapter = "indexeddb"
  <2>1. /\ Choice(tab[t].deployment, tab[t].listed, migrated, tab'[t]) /\ tab[t].pc = "listed"
        /\ tab'[t].adapter \in Adapters
    BY <1>3, ResolvedConfig, ResolvedPage, PageFields
  <2>2. tab[t].deployment.username
    BY <2>1 DEF Alive, DeploymentsOK
  <2> QED
    BY <1>1, <1>3, <2>1, <2>2 DEF Choice, Adapters
<1>4. ASSUME NEW s \in Tabs
      PROVE  /\ tab'[s].listed["byId"] # "idb"
             /\ tab'[s].name = "byId" => tab'[s].adapter = "indexeddb"
  <2>1. CASE s # t
    BY <1>1, <2>1, OwnPage DEF OthersKept
  <2>2. CASE s = t
    <3>1. CASE EndedPage(t) \/ FreshPage(t)
      BY <1>1, <2>2, <3>1 DEF EndedPage, FreshPage
    <3>2. CASE FindExistingDbs(t)
      <4>1. /\ tab'[t].listed = [n \in Names |-> dbs[n].adapter] /\ tab'[t].name = tab[t].name
            /\ tab'[t].adapter = tab[t].adapter
        BY <3>2, ListedPage
      <4>2. tab'[t].listed["byId"] = dbs["byId"].adapter
        BY <1>1, <4>1
      <4> QED
        BY <1>1, <2>2, <4>1, <4>2
    <3>3. CASE Resolve(t)
      BY <1>1, <1>3, <2>2, <3>3, ResolvedPage
    <3>4. CASE OpenDatabase(t)
      BY <1>1, <2>2, <3>4, OpenedPage DEF SamePage
    <3>5. CASE tab'[t] = tab[t] \/ GoesOn(t)
      BY <1>1, <2>2, <3>5 DEF GoesOn
    <3> QED
      BY <3>1, <3>2, <3>3, <3>4, <3>5, OwnPage
  <2> QED
    BY <2>1, <2>2
<1> QED
  BY <1>2, <1>4

\* A page that has its database had it before, unless it has just got it.
LEMMA StillThere ==
  ASSUME TypeOK, AdapterInv, NEW t \in Tabs, TabStep(t), NEW s \in Tabs,
         tab'[s].pc \in {"resolved", "open", "asked", "syncing", "destroying"}
  PROVE  \/ s = t /\ Resolve(t)
         \/ /\ SameDb(s) /\ Alive(s) /\ Alive(s)'
            /\ tab[s].pc \in {"resolved", "open", "asked", "syncing", "destroying"}
            /\ tab'[s].pc = "resolved" => tab[s].pc = "resolved"
            /\ tab[s].pc = "resolved" /\ tab'[s].pc # "resolved" => s = t /\ OpenDatabase(t)
<1>1. Alive(s)'
  BY DEF Alive
<1>2. CASE s = t /\ (Load(t) \/ FindExistingDbs(t))
  BY <1>2, LoadedPage, ListedPage
<1>3. CASE ~(s = t /\ (Load(t) \/ FindExistingDbs(t) \/ Resolve(t)))
  <2>1. SameDb(s) /\ Alive(s)
    BY <1>1, <1>3, PageBefore
  <2>2. /\ tab[s].pc \in {"resolved", "open", "asked", "syncing", "destroying"}
        /\ tab'[s].pc = "resolved" => tab[s].pc = "resolved"
        /\ tab[s].pc = "resolved" /\ tab'[s].pc # "resolved" => s = t /\ OpenDatabase(t)
    BY <1>1, <1>3, PageBefore
  <2> QED
    BY <1>1, <2>1, <2>2
<1> QED
  BY <1>2, <1>3

\* The new database stays in use.
LEMMA StillNew ==
  ASSUME TypeOK, AdapterInv, MigratingOK, NEW t \in Tabs, TabStep(t), NEW s \in Tabs, OnNew(s)'
  PROVE  (s = t /\ Resolve(t)) \/ (OnNew(s) /\ SameDb(s))
<1> SUFFICES ASSUME ~(s = t /\ Resolve(t)) PROVE OnNew(s) /\ SameDb(s)
  OBVIOUS
<1>1. SameDb(s) /\ tab[s].pc \in {"resolved", "open", "asked", "syncing", "destroying"}
  BY StillThere DEF OnNew
<1>2. tab[s].adapter = "indexeddb" /\ tab[s].deployment.username
  BY <1>1 DEF OnNew, SameDb
<1>3. tab[s].pc \in {"resolved", "open"}
  BY <1>1, <1>2 DEF MigratingOK
<1> QED
  BY <1>1, <1>2, <1>3 DEF OnNew

\* What a page has found stays what it has found.
LEMMA ResolvedStep ==
  ASSUME TypeOK, AdapterInv, NEW t \in Tabs, TabStep(t), MigratingOK, ResolvedOK
  PROVE  ResolvedOK'
<1> SUFFICES ASSUME NEW s \in Tabs
             PROVE  LET d == tab'[s].deployment
                    IN  /\ OnLegacy(s)' =>
                              /\ d.username
                              /\ d.useIndexeddb /\ d.listable => tab'[s].listed["byName"] = "idb"
                        /\ tab'[s].name = "byId" /\ tab'[s].adapter = "idb" /\ d.username
                              => d.listable /\ d.useIndexeddb
                        /\ OnNew(s)' => d.useIndexeddb
  BY DEF ResolvedOK
<1>1. CASE s = t /\ Resolve(t)
  <2>1. /\ tab'[t].deployment = tab[t].deployment /\ tab'[t].listed = tab[t].listed
        /\ Choice(tab[t].deployment, tab[t].listed, migrated, tab'[t])
    BY <1>1, ResolvedConfig
  <2> QED
    BY <1>1, <2>1 DEF Choice, OnLegacy, OnNew
<1>2. CASE ~(s = t /\ Resolve(t))
  <2>1. OnLegacy(s)' => OnLegacy(s) /\ SameDb(s)
    BY <1>2, StillThere DEF OnLegacy, SameDb
  <2>2. OnNew(s)' => OnNew(s) /\ SameDb(s)
    BY <1>2, StillNew
  <2>3. tab'[s].adapter = "idb" => SameDb(s) \/ (s = t /\ FindExistingDbs(t))
    <3>1. CASE s # t
      BY <3>1, OwnPage DEF OthersKept, SameDb
    <3>2. CASE s = t
      <4>1. CASE EndedPage(t) \/ FreshPage(t)
        BY <3>2, <4>1 DEF EndedPage, FreshPage
      <4>2. CASE OpenDatabase(t)
        BY <3>2, <4>2, OpenedPage DEF SamePage, SameDb
      <4> QED
        BY <1>2, <3>2, <4>1, <4>2, OwnPage DEF GoesOn, SameDb
    <3> QED
      BY <3>1, <3>2
  <2> QED
    BY <2>1, <2>2, <2>3, ListedPage DEF ResolvedOK, SameDb
<1> QED
  BY <1>1, <1>2

\* A legacy database that is opened although the databases can be listed was found.
LEMMA OpensFound ==
  ASSUME TypeOK, NEW t \in Tabs, OpenDatabase(t), ResolvedOK, dbs["byName"].adapter = "none",
         tab[t].name = "byName", tab[t].deployment.useIndexeddb, tab[t].deployment.listable
  PROVE  "byName" \in recreated'
<1>1. tab[t].pc = "resolved"
  BY OpenedPage
<1>2. tab[t].listed["byName"] = "idb" /\ "idb" # "none"
  BY <1>1 DEF ResolvedOK, OnLegacy
<1>3. recreated' = recreated \cup {m \in {"byName"} : tab[t].listed["byName"] # "none"
                                                      /\ dbs["byName"].adapter = "none"}
  BY DEF OpenDatabase
<1> QED
  BY <1>2, <1>3

\* A page that has not found a legacy database may rely on that.
LEMMA ListedStep ==
  ASSUME TypeOK, Steady, NEW t \in Tabs, TabStep(t), DeploymentsOK, ResolvedOK, ListedOK
  PROVE  ListedOK'
<1> SUFFICES ASSUME NEW s \in Tabs, tab'[s].pc = "listed", tab'[s].deployment.useIndexeddb,
                    tab'[s].deployment.listable, tab'[s].deployment.username,
                    tab'[s].listed["byName"] = "none"
             PROVE  dbs'["byName"].adapter = "none" \/ "byName" \in recreated'
  BY DEF ListedOK
<1>1. "byName" \in Names
  BY DEF Names
<1>2. CASE s = t /\ FindExistingDbs(t)
  <2>1. tab'[t].listed = [n \in Names |-> dbs[n].adapter] /\ dbs' = dbs
    BY <1>2, ListedPage DEF FindExistingDbs, deviceVars
  <2> QED
    BY <1>1, <1>2, <2>1
<1>3. CASE ~(s = t /\ FindExistingDbs(t))
  <2>1. SameDb(s) /\ tab[s].pc = "listed"
    <3>1. Alive(s)'
      BY DEF Alive
    <3> QED
      BY <1>3, <3>1, PageBefore, LoadedPage, ResolvedPage
  <2>2. dbs["byName"].adapter = "none" \/ "byName" \in recreated
    BY <2>1 DEF SameDb, ListedOK
  <2>3. CASE "byName" \in recreated
    BY <2>3, RestStep
  <2>4. CASE dbs["byName"].adapter = "none"
    <3> SUFFICES ASSUME dbs'["byName"].adapter # "none" PROVE "byName" \in recreated'
      OBVIOUS
    <3>1. OpenDatabase(t) /\ tab[t].name = "byName"
      BY <1>1, <2>4, AdapterStep DEF NoDb
    <3>2. s # t /\ Alive(s) /\ Alive(t)
      BY <2>1, <3>1, OpenedPage DEF Alive
    <3>3. tab[t].deployment.useIndexeddb /\ tab[t].deployment.listable
      BY <2>1, <3>2, SameConfig DEF SameDb
    <3> QED
      BY <2>4, <3>1, <3>3, OpensFound
  <2> QED
    BY <2>2, <2>3, <2>4
<1> QED
  BY <1>2, <1>3

\* Whatever comes into a database that was created again is exposed.
LEMMA RecreatedStep ==
  ASSUME TypeOK, NEW t \in Tabs, TabStep(t), DatabasesOK, RecreatedOK
  PROVE  RecreatedOK'
<1> DEFINE Again == \/ "byName" \in recreated
                    \/ \E s \in Tabs : tab[s].pc = "deleted" /\ tab[s].name = "byName"
<1> SUFFICES ASSUME Again' PROVE dbs'["byName"].changes \subseteq exposed'
  BY DEF RecreatedOK
<1>1. "byName" \in Names /\ exposed \subseteq exposed'
  BY SafeGrows DEF Names
<1>2. CASE Again
  <2>1. dbs["byName"].changes \subseteq exposed
    BY <1>2 DEF RecreatedOK
  <2>2. CASE Edit(t) /\ tab[t].name = "byName"
    <3>1. Exposed(t)
      BY <1>2, <2>2 DEF Exposed
    <3>2. exposed' = exposed \cup {edits + 1}
      BY <2>2, <3>1 DEF Edit
    <3> QED
      BY <1>1, <2>1, <3>2, ChangesStep
  <2>3. CASE ~(Edit(t) /\ tab[t].name = "byName")
    BY <1>1, <2>1, <2>3, ChangesStep
  <2> QED
    BY <2>2, <2>3
<1>3. CASE ~Again
  <2>1. CASE "byName" \in recreated'
    <3>1. OpenDatabase(t) /\ "byName" \notin recreated
      BY <1>3, <2>1, RestStep
    <3>2. dbs["byName"].adapter = "none"
      BY <2>1, <3>1 DEF OpenDatabase
    <3>3. dbs["byName"].changes = {} /\ ~Edit(t)
      BY <1>1, <3>1, <3>2 DEF DatabasesOK, OpenDatabase, Edit
    <3> QED
      BY <1>1, <3>3, ChangesStep
  <2>2. ASSUME NEW s \in Tabs, tab'[s].pc = "deleted", tab'[s].name = "byName"
        PROVE  dbs'["byName"].changes \subseteq exposed'
    <3>1. Alive(s)'
      BY <2>2 DEF Alive
    <3>2. SameDb(s) /\ s = t /\ DeleteLegacyDb(t)
      <4>1. ~(s = t /\ (Load(t) \/ FindExistingDbs(t) \/ Resolve(t)))
        BY <2>2, LoadedPage, ListedPage, ResolvedPage
      <4>2. SameDb(s) /\ (tab[s].pc = "deleted" \/ (s = t /\ DeleteLegacyDb(t)))
        BY <2>2, <3>1, <4>1, PageBefore
      <4>3. tab[s].pc # "deleted"
        BY <1>3, <2>2, <4>2 DEF SameDb
      <4> QED
        BY <4>2, <4>3
    <3>3. dbs' = [dbs EXCEPT !["byName"] = NoDb]
      BY <2>2, <3>2 DEF SameDb, DeleteLegacyDb
    <3>4. dbs'["byName"].changes = {}
      BY <1>1, <3>3 DEF NoDb, TypeOK
    <3> QED
      BY <3>4
  <2> QED
    BY <2>1, <2>2
<1> QED
  BY <1>2, <1>3

\* A message to reload is only received by reloading.
LEMMA ReloadsStay ==
  ASSUME TypeOK, NEW t \in Tabs, TabStep(t), NEW s \in Tabs, Alive(s), Alive(s)', Reloads(s)
  PROVE  Reloads(s)'
<1>1. PICK m \in Elements(inbox[s]) : m[1] = "reload"
  BY DEF Reloads
<1>2. CASE s # t
  BY <1>1, <1>2, TabMail DEF MailFrom, Reloads
<1>3. CASE s = t
  <2>1. ~EndedPage(t) /\ ~Load(t)
    BY <1>3 DEF EndedPage, Alive, Load
  <2>2. Receive(t) => Reloads(t)'
    BY <1>1, <1>3, <2>1, ReceiveMail, Ended DEF Reloads, Leaves
  <2>3. (\/ RemoveStaleTabs(t) \/ Edit(t) \/ Sync(t) \/ FindExistingDbs(t) \/ Resolve(t)
         \/ OpenDatabase(t) \/ OfferMigration(t) \/ Confirm(t) \/ FinalSyncFails(t)
         \/ FinalSyncCompletes(t) \/ DeleteLegacyDb(t)) => inbox' = inbox
    BY DEF RemoveStaleTabs, Edit, Sync, FindExistingDbs, Resolve, OpenDatabase, OfferMigration,
       Confirm, FinalSyncFails, FinalSyncCompletes, DeleteLegacyDb, channelVars
  <2>4. inbox' = inbox => Reloads(t)'
    BY <1>1, <1>3 DEF Reloads
  <2>5. Ping(t) => Reloads(t)'
    BY <1>1, <1>3, PingMail DEF Reloads
  <2> QED
    BY <1>3, <2>1, <2>2, <2>3, <2>4, <2>5, OwnPage
<1> QED
  BY <1>2, <1>3

\* What a page relies on that resolves to the new database without a flag
LEMMA FoundNothing ==
  ASSUME TypeOK, AdapterInv, NEW t \in Tabs, Resolve(t), ListedOK, ~migrated,
         tab'[t].adapter = "indexeddb", tab[t].deployment.username,
         tab[t].deployment.useIndexeddb
  PROVE  /\ tab[t].deployment.listable
         /\ dbs["byName"].adapter = "none" \/ "byName" \in recreated
<1> DEFINE d == tab[t].deployment
           listed == tab[t].listed
<1>1. /\ Choice(d, listed, migrated, tab'[t]) /\ tab[t].pc = "listed"
      /\ listed["byName"] \in Adapters \cup {"none"} /\ listed["byName"] # "indexeddb"
  <2>1. listed \in [Names -> Adapters \cup {"none"}] /\ "byName" \in Names
    BY PageFields DEF TypeOK, Names
  <2> QED
    BY <2>1, ResolvedConfig DEF AdapterInv
<1>2. d.listable /\ listed["byName"] # "idb"
  BY <1>1 DEF Choice, LegacyName
<1>3. listed["byName"] = "none"
  BY <1>1, <1>2 DEF Adapters
<1> QED
  BY <1>1, <1>2, <1>3 DEF ListedOK

\* Once the account is migrated, changes in pages that still have the legacy database are
\* exposed.
LEMMA DoomedStep ==
  ASSUME TypeOK, AdapterInv, Steady, NEW t \in Tabs, TabStep(t), DatabasesOK, DeploymentsOK,
         MigratingOK, ResolvedOK, ListedOK, DoomedOK
  PROVE  DoomedOK'
<1> SUFFICES ASSUME migrated', NEW s \in Tabs, OnLegacy(s)' PROVE Doomed(s)'
  BY DEF DoomedOK
<1>1. "byName" \in Names /\ recreated \subseteq recreated'
  BY RestStep DEF Names
<1>2. CASE s = t /\ Resolve(t)
  BY <1>2, ResolvedConfig DEF Choice, OnLegacy
<1>3. CASE ~(s = t /\ Resolve(t))
  <2>1. /\ SameDb(s) /\ Alive(s) /\ Alive(s)' /\ OnLegacy(s)
        /\ tab'[s].pc = "resolved" => tab[s].pc = "resolved"
        /\ tab[s].pc = "resolved" /\ tab'[s].pc # "resolved" => s = t /\ OpenDatabase(t)
    BY <1>3, StillThere DEF OnLegacy, SameDb
  <2>2. tab[s].deployment.username /\ tab[s].name = "byName" /\ tab'[s].deployment = tab[s].deployment
    BY <2>1 DEF ResolvedOK, OnLegacy, SameDb
  <2>3. CASE migrated
    <3>1. Doomed(s)
      BY <2>1, <2>3 DEF DoomedOK
    <3>2. CASE "byName" \in recreated
      BY <1>1, <2>2, <3>1, <3>2 DEF Doomed
    <3>3. CASE Reloads(s)
      BY <2>1, <2>2, <3>1, <3>3, ReloadsStay DEF Doomed
    <3>4. CASE /\ tab[s].deployment.listable /\ tab[s].pc = "resolved"
               /\ dbs["byName"].adapter = "none"
      <4>1. CASE tab'[s].pc # "resolved"
        <5>1. "byName" \in recreated'
          BY <2>1, <2>2, <3>1, <3>4, <4>1, OpensFound DEF Doomed
        <5> QED
          BY <2>2, <3>1, <5>1 DEF Doomed
      <4>2. CASE tab'[s].pc = "resolved" /\ dbs'["byName"].adapter = "none"
        BY <2>2, <3>1, <3>4, <4>2 DEF Doomed
      <4>3. CASE tab'[s].pc = "resolved" /\ dbs'["byName"].adapter # "none"
        <5>1. OpenDatabase(t) /\ tab[t].name = "byName" /\ tab'[t].pc = "open"
          BY <1>1, <3>4, <4>3, AdapterStep DEF NoDb
        <5>2. s # t /\ Alive(t)
          BY <4>3, <5>1, OpenedPage DEF Alive
        <5>3. tab[t].deployment.useIndexeddb /\ tab[t].deployment.listable
          BY <2>1, <3>1, <3>4, <5>2, SameConfig DEF Doomed
        <5>4. "byName" \in recreated'
          BY <3>4, <5>1, <5>3, OpensFound
        <5> QED
          BY <2>2, <3>1, <5>4 DEF Doomed
      <4> QED
        BY <4>1, <4>2, <4>3
    <3> QED
      BY <3>1, <3>2, <3>3, <3>4 DEF Doomed
  <2>4. CASE ~migrated /\ FinishMigration(t)
    <3>1. EndedPage(t) /\ tab[t].pc = "deleted"
      BY <2>4, Ended DEF FinishMigration
    <3>2. s # t /\ Alive(t)
      BY <2>1, <3>1 DEF EndedPage, Alive
    <3>3. Reloads(s)'
      <4>1. <<"reload", t>> \in Elements(inbox'[s]) /\ <<"reload", t>>[1] = "reload"
        BY <2>1, <2>4, <3>2, FinishMail
      <4> QED
        BY <4>1 DEF Reloads
    <3>4. tab[t].deployment.useIndexeddb
      BY <3>1 DEF MigratingOK
    <3>5. tab[s].deployment.useIndexeddb
      BY <2>1, <3>2, <3>4, SameConfig
    <3> QED
      BY <2>2, <3>3, <3>5 DEF Doomed
  <2>5. CASE ~migrated /\ Resolve(t)
    <3>1. s # t /\ Alive(t)
      BY <1>3, <2>5, ResolvedConfig DEF Alive
    <3>2. /\ tab[t].deployment.username = tab[s].deployment.username
          /\ tab[t].deployment.useIndexeddb = tab[s].deployment.useIndexeddb
          /\ tab[t].deployment.listable = tab[s].deployment.listable
      BY <2>1, <3>1, SameConfig
    <3>3. tab[t].deployment.useIndexeddb /\ tab'[t].adapter = "indexeddb"
      BY <2>5, ResolvedConfig
    <3>4. tab[t].deployment.listable /\ (dbs["byName"].adapter = "none" \/ "byName" \in recreated)
      BY <2>2, <2>5, <3>2, <3>3, FoundNothing
    <3>5. CASE "byName" \in recreated
      BY <1>1, <2>2, <3>2, <3>3, <3>5 DEF Doomed
    <3>6. CASE dbs["byName"].adapter = "none"
      <4>1. ~Open(s)
        <5>1. tab[s].adapter # "none"
          BY PageFields DEF TypeOK, Adapters
        <5> QED
          BY <2>2, <3>6, <5>1 DEF DatabasesOK
      <4>2. tab[s].pc = "resolved"
        BY <2>1, <4>1 DEF OnLegacy, Open
      <4>3. tab'[s].pc = "resolved" /\ dbs' = dbs
        BY <2>1, <2>5, <3>1, <4>2, ResolvedPage DEF Resolve
      <4> QED
        BY <2>2, <3>2, <3>3, <3>4, <3>6, <4>3 DEF Doomed
    <3> QED
      BY <3>4, <3>5, <3>6
  <2> QED
    BY <2>3, <2>4, <2>5, RestStep
<1> QED
  BY <1>2, <1>3

\* A change in a legacy database is exposed once the account is migrated.
LEMMA DoomedEdit ==
  ASSUME TypeOK, NEW t \in Tabs, Edit(t), tab[t].name = "byName", DoomedOK, migrated
  PROVE  edits + 1 \in exposed'
<1>1. tab[t].pc \in {"open", "asked"} /\ OnLegacy(t)
  BY DEF Edit, OnLegacy
<1>2. "byName" \in recreated \/ Reloads(t)
  BY <1>1 DEF DoomedOK, Doomed
<1>3. Exposed(t)
  BY <1>2 DEF Exposed, Reloads, Elements
<1> QED
  BY <1>3 DEF Edit

\* Whatever is in the legacy database when it is found to be migrated is safe.
LEMMA NewlyMigrated ==
  ASSUME TypeOK, AdapterInv, Steady, NEW t \in Tabs, DatabasesOK, DeploymentsOK, MigratingOK,
         NameUnused, IdUnused, ResolvedOK, RecreatedOK, tab[t].pc = "deleted"
  PROVE  dbs["byName"].changes \subseteq exposed
<1>1. Alive(t) /\ tab[t].deployment.useIndexeddb /\ tab[t].adapter = "idb" /\ tab[t].name \in Names
  BY PageFields DEF Alive, MigratingOK, TypeOK
<1>2. CASE tab[t].name = "byName"
  BY <1>2 DEF RecreatedOK
<1>3. CASE tab[t].name = "byId"
  <2>1. NoName
    <3>1. CASE ~tab[t].deployment.username
      BY <1>1, <3>1 DEF NoName
    <3>2. CASE tab[t].deployment.username
      <4>1. tab[t].deployment.listable /\ deployment.username
        BY <1>1, <1>3, <3>2 DEF ResolvedOK, DeploymentsOK
      <4>2. named
        BY <1>1, <1>3, <4>1 DEF IdUnused
      <4>3. toggles = 0
        BY <4>2 DEF Steady
      <4>4. deployment.useIndexeddb /\ deployment.listable
        BY <1>1, <4>1, <4>3 DEF DeploymentsOK
      <4> QED
        BY <4>2, <4>4 DEF NoName
    <3> QED
      BY <3>1, <3>2
  <2>2. dbs["byName"].adapter = "none" /\ "byName" \in Names
    BY <2>1 DEF NameUnused, Names
  <2> QED
    BY <2>2 DEF DatabasesOK
<1> QED
  BY <1>1, <1>2, <1>3 DEF Names

\* The same when a page finds that there is nothing to migrate
LEMMA NewlyFresh ==
  ASSUME TypeOK, AdapterInv, NEW t \in Tabs, Resolve(t), DatabasesOK, MigratingOK, NameUnused,
         ListedOK, RecreatedOK, ~migrated, tab'[t].adapter = "indexeddb",
         tab[t].deployment.useIndexeddb
  PROVE  dbs["byName"].changes \subseteq exposed
<1>1. "byName" \in Names /\ Alive(t)
  BY ResolvedConfig DEF Names, Alive
<1>2. CASE ~tab[t].deployment.username
  <2>1. NoName
    BY <1>1, <1>2 DEF NoName
  <2> QED
    BY <1>1, <2>1 DEF NameUnused, DatabasesOK
<1>3. CASE tab[t].deployment.username
  <2>1. dbs["byName"].adapter = "none" \/ "byName" \in recreated
    BY <1>3, FoundNothing
  <2>2. CASE dbs["byName"].adapter = "none"
    BY <1>1, <2>2 DEF DatabasesOK
  <2>3. CASE "byName" \in recreated
    BY <2>3 DEF RecreatedOK
  <2> QED
    BY <2>1, <2>2, <2>3
<1> QED
  BY <1>2, <1>3

\* The legacy database stays safe, and is when it is given up.
LEMMA SafeStep ==
  ASSUME TypeOK, AdapterInv, Steady, NEW t \in Tabs, TabStep(t), MigrationInv
  PROVE  SafeOK'
<1> USE DEF MigrationInv
<1> DEFINE Old == migrated \/ \E s \in Tabs : OnNew(s)
<1> SUFFICES ASSUME Old' PROVE dbs'["byName"].changes \subseteq Safe'
  BY DEF SafeOK
<1>1. "byName" \in Names /\ Safe \subseteq Safe' /\ exposed \subseteq exposed'
  BY SafeGrows DEF Names
<1>2. exposed \subseteq Safe /\ exposed' \subseteq Safe'
  BY DEF Safe
<1>3. CASE Old
  <2>1. dbs["byName"].changes \subseteq Safe
    BY <1>3 DEF SafeOK
  <2>2. CASE Edit(t) /\ tab[t].name = "byName"
    <3>1. migrated
      <4> SUFFICES ASSUME NEW s \in Tabs, OnNew(s) PROVE migrated
        BY <1>3
      <4>1. s # t /\ Alive(s) /\ Alive(t)
        BY <2>2 DEF OnNew, AdapterInv, Alive, Edit
      <4>2. Constant
        BY <4>1, SameConfig
      <4> QED
        BY <4>2 DEF FlagOK
    <3>2. edits + 1 \in exposed'
      BY <2>2, <3>1, DoomedEdit
    <3> QED
      BY <1>1, <1>2, <2>1, <3>2, ChangesStep
  <2>3. CASE ~(Edit(t) /\ tab[t].name = "byName")
    BY <1>1, <2>1, <2>3, ChangesStep
  <2> QED
    BY <2>2, <2>3
<1>4. CASE ~Old
  <2>1. ASSUME Resolve(t) \/ FinishMigration(t), dbs["byName"].changes \subseteq exposed
        PROVE  dbs'["byName"].changes \subseteq Safe'
    BY <1>1, <1>2, <2>1 DEF Resolve, FinishMigration
  <2>2. CASE FinishMigration(t)
    <3>1. tab[t].pc = "deleted"
      BY <2>2 DEF FinishMigration
    <3>2. dbs["byName"].changes \subseteq exposed
      BY <3>1, NewlyMigrated
    <3> QED
      BY <2>1, <2>2, <3>2
  <2>3. CASE ~FinishMigration(t)
    <3>1. Resolve(t) /\ tab'[t].adapter = "indexeddb" /\ tab[t].deployment.useIndexeddb
      <4>1. CASE migrated'
        BY <1>4, <2>3, <4>1, RestStep, ResolvedConfig
      <4>2. ASSUME NEW s \in Tabs, OnNew(s)'
            PROVE  Resolve(t) /\ tab'[t].adapter = "indexeddb" /\ tab[t].deployment.useIndexeddb
        <5>1. s = t /\ Resolve(t)
          BY <1>4, <4>2, StillNew
        <5> QED
          BY <4>2, <5>1, ResolvedConfig DEF OnNew, Choice
      <4> QED
        BY <4>1, <4>2
    <3>2. dbs["byName"].changes \subseteq exposed
      BY <1>4, <3>1, NewlyFresh
    <3> QED
      BY <2>1, <3>1, <3>2
  <2> QED
    BY <2>2, <2>3
<1> QED
  BY <1>3, <1>4

\* The flag only goes with a reset, or while the new adapter is disabled.
LEMMA FlagStep ==
  ASSUME TypeOK, AdapterInv, Steady, NEW t \in Tabs, TabStep(t), MigrationInv
  PROVE  FlagOK'
<1> USE DEF MigrationInv
<1> SUFFICES ASSUME Constant', NEW s \in Tabs, OnNew(s)' PROVE migrated'
  BY DEF FlagOK
<1>1. Constant
  BY RestStep DEF Constant
<1>2. CASE s = t /\ Resolve(t)
  BY <1>2, ResolvedConfig DEF OnNew, Choice
<1>3. CASE ~(s = t /\ Resolve(t))
  <2>1. OnNew(s) /\ SameDb(s)
    BY <1>3, StillNew
  <2>2. migrated /\ tab[s].deployment.useIndexeddb
    BY <1>1, <2>1 DEF FlagOK, ResolvedOK
  <2>3. CASE Resolve(t)
    <3>1. s # t /\ Alive(s) /\ Alive(t)
      BY <1>3, <2>1, <2>3, ResolvedConfig DEF OnNew, Alive
    <3>2. tab[t].deployment.useIndexeddb
      BY <2>2, <3>1, SameConfig
    <3> QED
      BY <2>2, <2>3, <3>2, ResolvedConfig
  <2>4. ~MarkResetPending(t)
    BY <1>1 DEF Constant, MarkResetPending
  <2>5. CASE ~Resolve(t)
    <3>1. migrated' = migrated \/ migrated' = TRUE
      BY <2>4, <2>5 DEF TabStep, Receive, Ping, RemoveStaleTabs, Load, Close, FindExistingDbs,
         OpenDatabase, Edit, Sync, Migrate, OfferMigration, Confirm, FinalSyncFails,
         FinalSyncCompletes, DeleteLegacyDb, DeletionFails, FinishMigration, deviceVars
    <3> QED
      BY <2>2, <3>1
  <2> QED
    BY <2>3, <2>5
<1> QED
  BY <1>2, <1>3

LEMMA MigrationNext ==
  TypeOK /\ AdapterInv /\ Steady /\ Steady' /\ MigrationInv /\ [Next]_vars => MigrationInv'
<1> SUFFICES ASSUME TypeOK, AdapterInv, Steady, Steady', MigrationInv, [Next]_vars
             PROVE  MigrationInv'
  OBVIOUS
<1>1. ASSUME NEW t \in Tabs, TabStep(t) PROVE MigrationInv'
  <2>1. DatabasesOK' /\ DeploymentsOK' /\ MigratingOK'
    BY <1>1, DatabasesStep, DeploymentsStep, MigratingStep DEF MigrationInv
  <2>2. NameUnused' /\ IdUnused'
    BY <1>1, NameStep, IdStep DEF MigrationInv
  <2>3. ResolvedOK' /\ ListedOK' /\ RecreatedOK' /\ DoomedOK'
    BY <1>1, ResolvedStep, ListedStep, RecreatedStep, DoomedStep DEF MigrationInv
  <2>4. SafeOK' /\ FlagOK'
    BY <1>1, SafeStep, FlagStep
  <2> QED
    BY <2>1, <2>2, <2>3, <2>4 DEF MigrationInv
<1>2. ASSUME UNCHANGED <<deviceVars, tab, channelVars, loads, resets>>,
             UNCHANGED <<server, edits, denied, exposed, recreated>>,
             toggles' = 0 => toggles = 0, named => named',
             DeploymentsOK', NameUnused', IdUnused'
      PROVE  MigrationInv'
  <2>1. Constant' => Constant
    BY <1>2 DEF Constant
  <2>2. SafeOK' /\ FlagOK'
    BY <1>2, <2>1 DEF MigrationInv, SafeOK, FlagOK, OnNew, Safe, deviceVars
  <2>3. DoomedOK' /\ RecreatedOK' /\ ListedOK'
    BY <1>2 DEF MigrationInv, DoomedOK, Doomed, OnLegacy, Reloads, RecreatedOK, ListedOK,
                deviceVars, channelVars
  <2>4. DatabasesOK' /\ MigratingOK' /\ ResolvedOK'
    BY <1>2 DEF MigrationInv, DatabasesOK, Open, MigratingOK, ResolvedOK, OnLegacy, OnNew,
                deviceVars
  <2> QED
    BY <1>2, <2>2, <2>3, <2>4 DEF MigrationInv
<1>3. CASE Toggle
  <2>1. /\ UNCHANGED <<deviceVars, tab, channelVars, loads, resets>>
        /\ UNCHANGED <<server, edits, denied, exposed, recreated>>
        /\ toggles' = toggles + 1 /\ named' = named
        /\ deployment' = [deployment EXCEPT !.useIndexeddb = ~deployment.useIndexeddb]
    BY <1>3 DEF Toggle, historyVars
  <2>2. toggles' # 0 /\ ~named
    BY <2>1 DEF TypeOK, Steady
  <2>3. deployment'.username = deployment.username /\ deployment'.listable = deployment.listable
    BY <2>1 DEF TypeOK, Deployment
  <2>4. DeploymentsOK' /\ NameUnused' /\ IdUnused'
    BY <2>1, <2>2, <2>3 DEF MigrationInv, DeploymentsOK, Alive, NameUnused, NoName, IdUnused,
                            deviceVars
  <2> QED
    BY <1>2, <2>1, <2>2, <2>4
<1>4. CASE NameAccount
  <2>1. /\ UNCHANGED <<deviceVars, tab, channelVars, loads, resets>>
        /\ UNCHANGED <<server, edits, denied, exposed, recreated>>
        /\ toggles' = toggles /\ named' /\ ~deployment.username
        /\ deployment' = [deployment EXCEPT !.username = TRUE]
    BY <1>4 DEF NameAccount
  <2>2. /\ deployment'.username /\ deployment'.useIndexeddb = deployment.useIndexeddb
        /\ deployment'.listable = deployment.listable
    BY <2>1 DEF TypeOK, Deployment
  <2>3. DeploymentsOK' /\ IdUnused'
    BY <2>1, <2>2 DEF MigrationInv, DeploymentsOK, Alive, IdUnused
  <2>4. NoName
    BY <2>1 DEF NoName
  <2>5. NameUnused'
    BY <2>1, <2>4 DEF MigrationInv, NameUnused, deviceVars
  <2> QED
    BY <1>2, <2>1, <2>3, <2>5
<1>5. CASE UNCHANGED vars
  BY <1>5 DEF vars, deviceVars, channelVars, envVars, historyVars, MigrationInv, DatabasesOK, Open,
     DeploymentsOK, Alive, MigratingOK, NameUnused, NoName, IdUnused, ResolvedOK, OnLegacy, OnNew,
     ListedOK, RecreatedOK, DoomedOK, Doomed, Reloads, SafeOK, Safe, FlagOK, Constant
<1> QED
  BY <1>1, <1>3, <1>4, <1>5 DEF Next, TabStep

LEMMA MigrationInit == Init => MigrationInv
<1> SUFFICES ASSUME Init PROVE MigrationInv
  OBVIOUS
<1>1. /\ \A t \in Tabs : tab[t] = NoTab
      /\ migrated = FALSE /\ recreated = {} /\ named = FALSE
      /\ deployment \in Deployment
  BY DEF Init, Deployment
<1>2. /\ NoTab.pc = "closed" /\ NoTab.name = "byId" /\ NoTab.adapter = "indexeddb"
      /\ NoTab.listed["byName"] = "none" /\ NoTab.listed["byId"] = "none" /\ ~NoTab.pending
  BY DEF NoTab, Names
<1>3. /\ \A n \in Names : dbs[n].changes = {}
      /\ \A n \in Names : n # LegacyName(deployment) => dbs[n].adapter = "none"
  BY DEF Init, NoDb
<1>4. "byName" \in Names /\ "byId" \in Names /\ "byName" # "byId"
  BY DEF Names
<1>5. DatabasesOK /\ DeploymentsOK /\ MigratingOK
  BY <1>1, <1>2, <1>3 DEF DatabasesOK, Open, DeploymentsOK, Alive, MigratingOK
<1>6. NameUnused /\ IdUnused
  BY <1>1, <1>2, <1>3, <1>4 DEF NameUnused, NoName, IdUnused, LegacyName, Alive
<1>7. ResolvedOK /\ ListedOK /\ RecreatedOK
  BY <1>1, <1>2, <1>3, <1>4 DEF ResolvedOK, OnLegacy, OnNew, ListedOK, RecreatedOK
<1>8. DoomedOK /\ SafeOK /\ FlagOK
  BY <1>1, <1>2, <1>3, <1>4 DEF DoomedOK, SafeOK, FlagOK, OnNew
<1> QED
  BY <1>5, <1>6, <1>7, <1>8 DEF MigrationInv

LEMMA NothingLeftBehind == TypeOK /\ AdapterInv /\ MigrationInv => NothingIsForgotten
<1> SUFFICES ASSUME TypeOK, AdapterInv, MigrationInv, NEW t \in Tabs, tab[t].pc = "open",
                    tab[t].adapter = "indexeddb",
                    dbs[LegacyName(tab[t].deployment)].adapter = "idb"
             PROVE  dbs[LegacyName(tab[t].deployment)].changes \subseteq Safe
  BY DEF NothingIsForgotten, Safe
<1>1. tab[t].name = "byId" /\ dbs["byId"].adapter = "indexeddb"
  BY DEF AdapterInv, MigrationInv, DatabasesOK, Open
<1>2. tab[t].deployment.username /\ LegacyName(tab[t].deployment) = "byName"
  BY <1>1 DEF LegacyName
<1>3. OnNew(t)
  BY <1>2 DEF OnNew
<1> QED
  BY <1>2, <1>3 DEF MigrationInv, SafeOK

\* NothingIsForgotten holds as long as the deployment is Steady: a page that has the new
\* database open leaves no change in a legacy one but those that no migration could know of
\* and those the server refuses, even with any number of tabs that migrate, or just
\* start, at the same time.
THEOREM NothingForgotten == Spec /\ []Steady => []NothingIsForgotten
<1>1. Init => AdapterInv /\ MigrationInv
  BY AdapterInit, MigrationInit
<1>2. TypeOK /\ AdapterInv /\ [Next]_vars => AdapterInv'
  BY AdapterNext
<1>3. TypeOK /\ AdapterInv /\ Steady /\ Steady' /\ MigrationInv /\ [Next]_vars => MigrationInv'
  BY MigrationNext
<1>4. TypeOK /\ AdapterInv /\ MigrationInv => NothingIsForgotten
  BY NothingLeftBehind
<1> QED
  BY <1>1, <1>2, <1>3, <1>4, TypeCorrect, PTL DEF Spec
=============================================================================
