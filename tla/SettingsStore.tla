----------------------------- MODULE SettingsStore -----------------------------
(***************************************************************************)
(* The browser extension's settings: one object in browser.storage.local   *)
(* (storage/settings.ts) that the popup (popup/App.tsx), the settings form *)
(* (settings/SettingsForm.tsx), the pill's power button and the goals      *)
(* popover change, each by reading it, merging a patch and writing it      *)
(* back, with no lock; and what the content script of every tab makes of   *)
(* it (start, reconcile and the watcher of content/index.ts, pause.ts).    *)
(*                                                                         *)
(* Of the settings there are those that change what a tab has mounted; the *)
(* others are read where they are used.  A site is a tab.  Writes to the   *)
(* storage succeed.                                                        *)
(***************************************************************************)
EXTENDS Integers, Sequences, FiniteSets

CONSTANTS
  Tabs,      \* open tabs, each of a site of its own
  MaxWrites  \* bound on changes of settings

VARIABLE settings

Defaults ==
  [enabled |-> TRUE, blocked |-> {}, suppress |-> TRUE, url |-> "default",
   goals |-> [audience |-> "general", formality |-> "neutral"]]

\* resolveCommonSettings: what is no URL is the default.
Resolved(stored) == [stored EXCEPT !.url = IF @ = "garbage" THEN "default" ELSE @]

\* getSettings
GetSettings(s) == Resolved(s.stored)

Mode(s, tab) ==
  IF ~s.enabled THEN "off" ELSE IF tab \in s.blocked THEN "site-paused" ELSE "active"

Nothing == [is |-> "none"]
Watchers == Tabs \cup {"popup"}

Init ==
  settings =
    [stored |-> Defaults, version |-> 0,
     tabs |-> [t \in Tabs |-> [is |-> "opening"]],
     popup |-> Nothing, form |-> Nothing,
     goals |-> [t \in Tabs |-> Nothing],     \* the goals popovers
     events |-> [w \in Watchers |-> <<>>],
     writes |-> {}, begun |-> 0,
     wanted |-> Defaults,                 \* history: what finished writes were to set
     lost |-> FALSE,                      \* history: two writes crossed, or one was of an old view
     missed |-> {}]                       \* history: tabs that were starting when something changed

-----------------------------------------------------------------------------
(* What a tab has mounted.  Slip_... definitions are slips the definition  *)
(* after them could have; nothing uses them.                               *)

Mounted(s) == [is |-> "mounted", url |-> s.url, suppress |-> s.suppress, goals |-> s.goals]

Reconciled(tab, t, s) ==
  CASE Mode(s, t) = "off" -> [tab EXCEPT !.runtime = Nothing, !.paused = FALSE]
    [] Mode(s, t) = "site-paused" -> [tab EXCEPT !.runtime = Nothing, !.paused = TRUE]
    [] OTHER -> [tab EXCEPT !.paused = FALSE, !.runtime = IF @ = Nothing THEN Mounted(s) ELSE @]

\* start: the settings are read, and some time later watched.
StartReads(t) ==
  /\ settings.tabs[t].is = "opening"
  /\ settings' = [settings EXCEPT !.tabs[t] = [is |-> "starting", current |-> GetSettings(settings)]]

StartWatches(t) ==
  /\ settings.tabs[t].is = "starting"
  /\ LET s == settings.tabs[t].current IN
     settings' = [settings EXCEPT
       !.tabs[t] = Reconciled([is |-> "on", current |-> s, runtime |-> Nothing, paused |-> FALSE], t, s)]

Slip_KeepsFields(tab, t, next) ==
  LET prev  == tab.current
      bound == IF tab.runtime # Nothing /\ prev.url # next.url
               THEN [tab EXCEPT !.runtime.url = next.url] ELSE tab
  IN  Reconciled([bound EXCEPT !.current = next,
                    !.runtime = IF @ = Nothing THEN Nothing ELSE [@ EXCEPT !.goals = next.goals]], t, next)
\* The watcher: the client is made anew for another URL, all of it for another
\* way with the page's spellcheck; fields take the goals.
Watched(tab, t, next) ==
  LET prev  == tab.current
      bound == IF tab.runtime # Nothing /\ prev.url # next.url
               THEN [tab EXCEPT !.runtime.url = next.url] ELSE tab
      torn  == IF prev.suppress # next.suppress THEN [bound EXCEPT !.runtime = Nothing] ELSE bound
  IN  Reconciled([torn EXCEPT !.current = next,
                    !.runtime = IF @ = Nothing THEN Nothing ELSE [@ EXCEPT !.goals = next.goals]], t, next)

\* The storage tells a tab; what it has mounted anew has no popover open.
TabHears(t) ==
  /\ settings.events[t] # <<>>
  /\ settings' = [settings EXCEPT
       !.tabs[t] = Watched(@, t, Head(settings.events[t])),
       !.goals[t] = Nothing, !.events[t] = Tail(@)]

PopupHears ==
  /\ settings.events["popup"] # <<>>
  /\ settings' = [settings EXCEPT !.popup = Head(settings.events["popup"]),
                                  !.events["popup"] = Tail(@)]

-----------------------------------------------------------------------------
(* Changing settings. *)

PopupOpens ==
  /\ settings.popup = Nothing
  /\ settings' = [settings EXCEPT !.popup = GetSettings(settings)]

FormOpens ==
  /\ settings.form = Nothing
  /\ settings' = [settings EXCEPT !.form = GetSettings(settings)]

GoalsOpen(t) ==
  /\ settings.tabs[t].is = "on" /\ settings.tabs[t].runtime # Nothing /\ settings.goals[t] = Nothing
  /\ settings' = [settings EXCEPT !.goals[t] = settings.tabs[t].runtime.goals]

\* A write is of a patch of the settings that were seen, which was to set
\* one thing.
Begin(s, by, seen, patch, sets) ==
  [s EXCEPT !.begun = @ + 1,
            !.writes = @ \cup {[id |-> s.begun, by |-> by, is |-> "begun", seen |-> seen,
                                patch |-> patch, sets |-> sets]}]

Toggled(sites, t) == IF t \in sites THEN sites \ {t} ELSE sites \cup {t}
Block(seen, t) == [field |-> "blocked", value |-> Toggled(seen.blocked, t)]
Blocks(seen, t) == [field |-> "blocked", site |-> t, value |-> t \notin seen.blocked]
Sets(field, value) == [field |-> field, value |-> value]

\* onToggleEnabled and onTogglePower of the popup, over one of the tabs
PopupToggles ==
  /\ settings.popup # Nothing
  /\ LET seen == settings.popup
         enabled == Sets("enabled", ~seen.enabled)
     IN  \/ settings' = Begin(settings, "popup", seen, enabled, enabled)
         \/ \E t \in Tabs :
              settings' = Begin(settings, "popup", seen, Block(seen, t), Blocks(seen, t))

\* patch of the form, which shows what it has read and is told of nothing
FormPatches ==
  /\ settings.form # Nothing
  /\ LET seen == settings.form IN
     \/ \E to \in {Sets("suppress", ~seen.suppress), Sets("url", "garbage"), Sets("url", "other")} :
          settings' = Begin(settings, "form", seen, to, to)
     \/ \E t \in Tabs :
          settings' = Begin(settings, "form", seen, Block(seen, t), Blocks(seen, t))

\* togglePower of the pill reads what it toggles.
PillToggles(t) ==
  /\ settings.tabs[t].is = "on"
  /\ settings.tabs[t].paused \/ settings.tabs[t].runtime # Nothing
  /\ settings' = Begin(settings, t, Nothing, Nothing, Nothing)

\* A pick in the goals popover is of the goals it was opened with.
PicksGoal(t) ==
  /\ settings.goals[t] # Nothing /\ settings.tabs[t].runtime # Nothing
  /\ LET seen == [goals |-> settings.goals[t]] IN
     \E part \in {"audience", "formality"}, value \in {"general", "neutral", "expert", "formal"} :
       /\ value \in (IF part = "audience" THEN {"general", "expert"} ELSE {"neutral", "formal"})
       /\ value # seen.goals[part]
       /\ LET next == [seen.goals EXCEPT ![part] = value] IN
          settings' = [Begin(settings, t, seen, Sets("goals", next),
                             [field |-> "goals", part |-> part, value |-> value])
                         EXCEPT !.tabs[t].runtime.goals = next]

Changes ==
  /\ settings.begun < MaxWrites
  /\ PopupToggles \/ FormPatches \/ \E t \in Tabs : PillToggles(t) \/ PicksGoal(t)

PillLooks(w) ==
  /\ w.is = "begun" /\ w.patch = Nothing
  /\ LET seen == GetSettings(settings) IN
     settings' = [settings EXCEPT
       !.writes = (@ \ {w}) \cup {[w EXCEPT !.seen = seen, !.patch = Block(seen, w.by),
                                           !.sets = Blocks(seen, w.by)]}]

Slip_FromView(s, w) == IF w.by = "form" THEN w.seen ELSE GetSettings(s)
\* setSettings merges the patch over what it reads now.
Base(s, w) == GetSettings(s)

Reads(w) ==
  /\ w.is = "begun" /\ w.patch # Nothing
  /\ settings' = [settings EXCEPT
       !.writes = (@ \ {w}) \cup {[is |-> "read", id |-> w.id, by |-> w.by, seen |-> w.seen,
                                   patch |-> w.patch, sets |-> w.sets,
                                   base |-> Base(settings, w), at |-> settings.version]}]

\* What was wanted, once a write is done.
Wanted(wanted, sets) ==
  CASE sets.field = "blocked" ->
         [wanted EXCEPT !.blocked = IF sets.value THEN @ \cup {sets.site} ELSE @ \ {sets.site}]
    [] sets.field = "goals" -> [wanted EXCEPT !.goals[sets.part] = sets.value]
    [] OTHER -> [wanted EXCEPT ![sets.field] = sets.value]

\* Something was written since this write read, or since what it makes a list
\* or goals of was seen.
Outdated(s, w) ==
  \/ w.at # s.version
  \/ w.patch.field \in {"blocked", "goals"} /\ w.seen[w.patch.field] # s.stored[w.patch.field]

Writes(w) ==
  /\ w.is = "read"
  /\ LET stored == [w.base EXCEPT ![w.patch.field] = w.patch.value]
         changed == stored # settings.stored
         hears(x) == CASE x = "popup" -> settings.popup # Nothing
                       [] OTHER -> settings.tabs[x].is = "on"
     IN  settings' = [settings EXCEPT
           !.stored = stored, !.version = @ + 1,
           !.writes = (@ \ {w}) \cup
             (IF w.by = "form" THEN {[is |-> "written", id |-> w.id, by |-> "form"]} ELSE {}),
           !.events = [x \in Watchers |->
                         IF changed /\ hears(x) THEN Append(@[x], stored) ELSE @[x]],
           !.wanted = Wanted(@, w.sets),
           !.lost = @ \/ Outdated(settings, w),
           !.missed = @ \cup {t \in Tabs : settings.tabs[t].is = "starting"}]

\* The form reads what has come of its patch.
FormReads(w) ==
  /\ w.is = "written"
  /\ settings' = [settings EXCEPT !.writes = @ \ {w}, !.form = GetSettings(settings)]

Next ==
  \/ PopupOpens \/ FormOpens \/ PopupHears \/ Changes
  \/ \E t \in Tabs : StartReads(t) \/ StartWatches(t) \/ TabHears(t) \/ GoalsOpen(t)
  \/ \E w \in settings.writes : PillLooks(w) \/ Reads(w) \/ Writes(w) \/ FormReads(w)

Spec == Init /\ [][Next]_settings

-----------------------------------------------------------------------------
(* Properties.  Invariants. *)

\* Settings are of their kind wherever they are held; a tab has a client or a
\* paused pill only where it is on, and only one of them.
TypeOK ==
  LET Goals == [audience : {"general", "expert"}, formality : {"neutral", "formal"}]
      Is(s) ==
        /\ s.enabled \in BOOLEAN /\ s.suppress \in BOOLEAN /\ s.blocked \subseteq Tabs
        /\ s.url \in {"default", "other", "garbage"} /\ s.goals \in Goals
  IN  /\ Is(settings.stored) /\ Is(settings.wanted)
      /\ settings.popup = Nothing \/ Is(settings.popup)
      /\ settings.form = Nothing \/ Is(settings.form)
      /\ \A t \in Tabs :
           LET tab == settings.tabs[t] IN
           /\ tab.is \in {"opening", "starting", "on"}
           /\ tab.is # "opening" => Is(tab.current)
           /\ tab.is = "on" => tab.paused \in BOOLEAN /\ (tab.paused => tab.runtime = Nothing)
           /\ settings.goals[t] = Nothing \/ settings.goals[t] \in Goals
      /\ \A w \in Watchers : \A i \in DOMAIN settings.events[w] : Is(settings.events[w][i])
      /\ \A v, w \in settings.writes : v.id = w.id => v = w
      /\ settings.begun \in 0..MaxWrites

\* What every finished write was to set is so, unless two crossed or one was
\* made of a list or of goals that were no longer so.
NothingLost == ~settings.lost => GetSettings(settings) = Resolved(settings.wanted)

\* A tab that has heard everything has mounted what the settings say, with the
\* URL and the treatment of the page's fields they say, unless something changed
\* while it started.
TabsFollow ==
  \A t \in Tabs :
    LET tab == settings.tabs[t] IN
    tab.is = "on" /\ settings.events[t] = <<>> /\ t \notin settings.missed =>
      /\ tab.paused <=> Mode(settings.stored, t) = "site-paused"
      /\ tab.runtime # Nothing <=> Mode(settings.stored, t) = "active"
      /\ tab.runtime # Nothing =>
           /\ Resolved([Defaults EXCEPT !.url = tab.runtime.url]).url = GetSettings(settings).url
           /\ tab.runtime.suppress = settings.stored.suppress
           /\ (\A w \in settings.writes : w.by # t) => tab.runtime.goals = settings.stored.goals
=============================================================================
