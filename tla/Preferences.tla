---------------------------- MODULE Preferences ----------------------------
(***************************************************************************)
(* What the single-page application remembers about its looks: the theme   *)
(* (web/src/theme/), the language (i18n/index.ts, LanguageSwitcher.tsx)    *)
(* and the width of the sidebar (AppShell.tsx, siderWidth.ts).             *)
(*                                                                         *)
(* One tab is modelled in full.  Tabs meet only in localStorage, which no  *)
(* part of the application listens to, so the other tabs of the browser    *)
(* are the values they save.  A value may be left by an earlier release or *)
(* damaged, a write may be refused, and the scheme of the operating system *)
(* changes at any time.  Lengths of the pointer are in half pixels, widths *)
(* in pixels.                                                              *)
(***************************************************************************)
EXTENDS Integers, Sequences

CONSTANTS
    Choices,        \* the entries of the theme menu that are used
    OldSelections,  \* what localStorage may hold for the theme at the start
    OldWidths,      \* and for the width
    OldLanguages,   \* and for the language
    Codes,          \* language codes: a language, perhaps with a region
    Languages,      \* the languages picked
    Navigator,      \* the browser's languages, best first
    Positions,      \* of the pointer
    MIN_SIDER_WIDTH, MAX_SIDER_WIDTH, DEFAULT_SIDER_WIDTH

VARIABLES
    page,      \* "closed", "mounted" until its first effects, then "open"
    os,        \* the scheme of the operating system
    store,     \* localStorage: selection, width, lang
    selection, \* ThemeProvider: selection
    system,    \* ThemeProvider: systemScheme
    due,       \* effects of the last render have not run
    root,      \* <html>: data-theme and the --dbx-* variables
    width,     \* AppShell: siderWidth
    drag,      \* AppShell: dragStart
    lang,      \* i18n.language
    chosen,    \* history: the theme and language last chosen and saved
    missed,    \* history: the scheme changed before anyone listened
    behind,    \* history: another width than this tab's may be saved
    pointer    \* history: where the last pointer event was

theme == <<selection, system, due, root>>
sider == <<width, drag, behind, pointer>>
vars == <<page, os, store, theme, sider, lang, chosen, missed>>

----------------------------------------------------------------------------
(* Themes.                                                                *)

Schemes == {"light", "dark"}

(* The palette of a scheme, and the part a preset may replace: its nine   *)
(* colours, never the shadows.                                            *)
Shadows == {"shadowSm", "shadow", "shadowLg"}
Surfaces == {"bgLayout", "bgContainer", "bgElevated", "border", "borderSecondary",
             "surface2", "borderStrong", "text", "textMuted"}

(* The presets: the scheme each builds on and the colours it brings.      *)
PRESET_THEMES ==
    [id \in {"ocean", "midnight", "emerald", "github-light", "github-dark", "claude-light",
             "claude-dark", "dracula", "nord", "solarized-light", "rose-pine", "gruvbox"} |->
        [base |-> IF id \in {"ocean", "github-light", "claude-light", "solarized-light"}
                  THEN "light" ELSE "dark",
         surfaces |-> IF id \in {"ocean", "midnight", "emerald"} THEN {} ELSE Surfaces]]

Modes == {"system", "light", "dark"}
Mode(m) == [kind |-> "mode", id |-> m]
Preset(id) == [kind |-> "preset", id |-> id]

DEFAULT_SELECTION == Preset("claude-light")

(* The menu: three modes and every preset.                                *)
MenuItems == {Mode(m) : m \in Modes} \cup {Preset(id) : id \in DOMAIN PRESET_THEMES}

IsValidSelectionMutNoSystem(v) ==
    \/ v.kind = "mode" /\ v.id \in {"light", "dark"}
    \/ v.kind = "preset" /\ v.id # ""

(* What parsed as JSON is a selection; a preset need not exist.           *)
isValidSelection(v) ==
    \/ v.kind = "mode" /\ v.id \in Modes
    \/ v.kind = "preset" /\ v.id # ""

(* Nothing stored, text that is no JSON, or a value of another shape:     *)
(* the default.                                                           *)
loadSelection(item) == IF isValidSelection(item) THEN item ELSE DEFAULT_SELECTION

NoPreset == "none"

activePreset(sel) ==
    IF sel.kind = "preset" /\ sel.id \in DOMAIN PRESET_THEMES THEN sel.id ELSE NoPreset

resolveScheme(sel, scheme) ==
    CASE sel.kind = "mode" /\ sel.id # "system" -> sel.id
      [] activePreset(sel) # NoPreset -> PRESET_THEMES[activePreset(sel)].base
      [] OTHER -> scheme

(* Whose colour each key of the palette has: the preset's or the scheme's.*)
resolveSurfaces(scheme, preset) ==
    [k \in Surfaces \cup Shadows |->
        IF preset # NoPreset /\ k \in PRESET_THEMES[preset].surfaces THEN preset ELSE scheme]

(* The accent is the preset's or the brand's; a text colour the preset    *)
(* does not pin is the one the algorithm computes for the scheme.         *)
buildThemeConfig(scheme, preset) ==
    [algorithm |-> scheme,
     primary |-> IF preset = NoPreset THEN "brand" ELSE preset,
     surfaces |-> resolveSurfaces(scheme, preset)]

(* The variables, one for each thing they show; hover and soft shades of  *)
(* the accent go with it.                                                 *)
CssVars == {"primary"} \cup (Surfaces \ {"border"}) \cup Shadows

computeCssVars(config) ==
    [v \in CssVars |-> IF v = "primary" THEN config.primary ELSE config.surfaces[v]]

(* setProperty for each variable computed; none is ever removed.          *)
applyCssVars(scheme, preset) ==
    LET computed == computeCssVars(buildThemeConfig(scheme, preset)) IN
    [theme |-> scheme,
     css |-> [v \in CssVars |-> IF v \in DOMAIN computed THEN computed[v] ELSE root.css[v]]]

(* What the effects leave for a selection and a scheme of the system.     *)
Painted(sel, scheme) == applyCssVars(resolveScheme(sel, scheme), activePreset(sel))

(* index.html before the first effect: the style sheet's own values.      *)
Unpainted == [theme |-> "", css |-> [v \in CssVars |-> "sheet"]]

----------------------------------------------------------------------------
(* Widths and languages.                                                  *)

(* Math.round of half pixels: a half goes up.                             *)
Round(h) == (h + 1) \div 2

clampSiderWidth(h) ==
    LET w == Round(h) IN
    CASE w < MIN_SIDER_WIDTH -> MIN_SIDER_WIDTH
      [] w > MAX_SIDER_WIDTH -> MAX_SIDER_WIDTH
      [] OTHER -> w

(* kind: "missing", "text" for what is no finite number, or "number".     *)
Missing == [kind |-> "missing", half |-> 0]
loadSiderWidth(item) ==
    IF item.kind = "number" THEN clampSiderWidth(item.half) ELSE DEFAULT_SIDER_WIDTH

(* String(clampSiderWidth(width)).                                        *)
Saved(w) == [kind |-> "number", half |-> 2 * clampSiderWidth(2 * w)]

NoDrag == [x |-> 0, width |-> 0]

SUPPORTED_LANGUAGES == {"en", "ru", "es", "it", "fr"}

(* A code is a language and perhaps a region.  i18next takes the first    *)
(* supported one of localStorage and the browser, regions ignored, or the *)
(* fallback.                                                              *)
Detect(stored) ==
    LET codes == stored \o Navigator
        supported == {i \in 1..Len(codes) : codes[i][1] \in SUPPORTED_LANGUAGES}
    IN IF supported = {} THEN <<"en">>
       ELSE codes[CHOOSE i \in supported : \A j \in supported : i <= j]

(* What LanguageSwitcher shows.                                           *)
Current(code) == IF code[1] \in SUPPORTED_LANGUAGES THEN code[1] ELSE "en"

ASSUME PreferencesAssumption ==
    /\ Choices \subseteq MenuItems
    /\ MIN_SIDER_WIDTH \in Nat \ {0} /\ MAX_SIDER_WIDTH \in Nat
    /\ DEFAULT_SIDER_WIDTH \in MIN_SIDER_WIDTH..MAX_SIDER_WIDTH
    /\ Positions \subseteq Int
    /\ OldWidths \subseteq [kind : {"missing", "text", "number"}, half : Int]
    /\ \A item \in OldSelections : item = [kind |-> item.kind, id |-> item.id]
    /\ OldLanguages \subseteq Seq(Codes) /\ Navigator \in Seq(Codes) /\ <<"en">> \in Codes
    /\ Languages \subseteq {code \in Codes : code[1] \in SUPPORTED_LANGUAGES}

----------------------------------------------------------------------------

Init ==
    /\ page = "closed"
    /\ selection = DEFAULT_SELECTION /\ system = "light"
    /\ due = FALSE /\ root = Unpainted /\ missed = FALSE
    /\ width = DEFAULT_SIDER_WIDTH /\ drag = NoDrag /\ behind = FALSE /\ pointer = 0
    /\ lang = <<"en">>
    /\ os \in Schemes
    /\ store \in [selection : OldSelections, width : OldWidths, lang : OldLanguages]
    /\ chosen = [selection |-> loadSelection(store.selection), lang |-> Current(Detect(store.lang))]

(* The page is loaded: i18n detects and stores its language, the provider *)
(* and the shell read theirs.  Effects run later.                         *)
Open ==
    /\ page = "closed"
    /\ page' = "mounted"
    /\ selection' = loadSelection(store.selection)
    /\ system' = os
    /\ due' = TRUE
    /\ width' = loadSiderWidth(store.width)
    /\ lang' = Detect(store.lang)
    /\ store' = [store EXCEPT !.lang = <<lang'>>]
    /\ missed' = FALSE
    /\ behind' = FALSE
    /\ UNCHANGED <<os, root, drag, chosen, pointer>>

(* The provider's effects: the first time it starts to listen for changes *)
(* of the scheme; each time it paints.                                    *)
Effects ==
    /\ page # "closed" /\ due
    /\ page' = "open"
    /\ due' = FALSE
    /\ root' = Painted(selection, system)
    /\ UNCHANGED <<os, store, selection, system, sider, lang, chosen, missed>>

OnChangeMutSystemOnly(scheme) ==
    IF selection = Mode("system") THEN scheme ELSE system

(* onChange: taken whatever the selection is.                             *)
OnChange(scheme) == scheme

(* The user or the time of day changes the scheme of the system.          *)
OsChanges ==
    /\ os' \in Schemes \ {os}
    /\ \/ /\ page = "open"
          /\ system' = OnChange(os')
          /\ due' = TRUE
          /\ missed' = FALSE
       \/ /\ page # "open"
          /\ missed' = (page = "mounted")
          /\ UNCHANGED <<system, due>>
    /\ UNCHANGED <<page, store, selection, root, sider, lang, chosen>>

(* setMode and selectPreset: a click, whose render and effects follow at  *)
(* once; the selection is set before it is saved.                         *)
Choose(c) ==
    /\ page = "open"
    /\ selection' = c
    /\ due' = FALSE
    /\ root' = Painted(c, system)
    /\ \/ /\ store' = [store EXCEPT !.selection = c]
          /\ chosen' = [chosen EXCEPT !.selection = c]
       \/ UNCHANGED <<store, chosen>>
    /\ UNCHANGED <<page, os, system, sider, lang, missed>>

(* i18n.changeLanguage; the detector stores it and hides a refusal.       *)
ChangeLanguage(code) ==
    /\ page = "open"
    /\ lang' = code
    /\ \/ /\ store' = [store EXCEPT !.lang = <<code>>]
          /\ chosen' = [chosen EXCEPT !.lang = Current(code)]
       \/ UNCHANGED <<store, chosen>>
    /\ UNCHANGED <<page, os, theme, sider, missed>>

OnResizePointerDown(x) ==
    /\ page = "open"
    /\ drag' = [x |-> x, width |-> width]
    /\ pointer' = x
    /\ UNCHANGED <<page, os, store, theme, width, lang, chosen, missed, behind>>

DragWidthMutCurrent(x) == clampSiderWidth(2 * width + x - drag.x)

(* From the origin of the drag, never from the width of now.              *)
dragWidth(x) == clampSiderWidth(2 * drag.width + x - drag.x)

OnResizePointerMove(x) ==
    /\ drag # NoDrag
    /\ width' = dragWidth(x)
    /\ pointer' = x
    /\ UNCHANGED <<page, os, store, theme, drag, lang, chosen, missed, behind>>

(* The width is set before it is saved.  A drag the browser cancels has   *)
(* no handler: it stays, and the next move goes on with it.               *)
OnResizePointerUp(x) ==
    /\ drag # NoDrag
    /\ width' = dragWidth(x)
    /\ drag' = NoDrag
    /\ pointer' = x
    /\ \/ store' = [store EXCEPT !.width = Saved(width')] /\ behind' = FALSE
       \/ behind' = TRUE /\ UNCHANGED store
    /\ UNCHANGED <<page, os, theme, lang, chosen, missed>>

(* The session ends and begins again: the shell is mounted anew.          *)
ShellRemounts ==
    /\ page = "open"
    /\ width' = loadSiderWidth(store.width)
    /\ drag' = NoDrag
    /\ behind' = FALSE
    /\ UNCHANGED <<page, os, store, theme, lang, chosen, missed, pointer>>

(* Nothing is kept of a page but what is in localStorage.                 *)
Close ==
    /\ page # "closed"
    /\ page' = "closed"
    /\ selection' = DEFAULT_SELECTION /\ system' = "light"
    /\ due' = FALSE /\ root' = Unpainted /\ missed' = FALSE
    /\ width' = DEFAULT_SIDER_WIDTH /\ drag' = NoDrag /\ behind' = FALSE /\ pointer' = 0
    /\ lang' = <<"en">>
    /\ UNCHANGED <<os, store, chosen>>

(* Another tab saves a choice of its user.                                *)
OtherTabSaves ==
    /\ \/ \E c \in Choices :
            /\ store' = [store EXCEPT !.selection = c]
            /\ chosen' = [chosen EXCEPT !.selection = c]
            /\ UNCHANGED behind
       \/ \E w \in MIN_SIDER_WIDTH..MAX_SIDER_WIDTH :
            /\ store' = [store EXCEPT !.width = Saved(w)]
            /\ behind' = (page # "closed")
            /\ UNCHANGED chosen
       \/ \E code \in Languages :
            /\ store' = [store EXCEPT !.lang = <<code>>]
            /\ chosen' = [chosen EXCEPT !.lang = Current(code)]
            /\ UNCHANGED behind
    /\ UNCHANGED <<page, os, theme, width, drag, pointer, lang, missed>>

Next ==
    \/ Open \/ Effects \/ OsChanges \/ ShellRemounts \/ Close \/ OtherTabSaves
    \/ \E c \in Choices : Choose(c)
    \/ \E code \in Languages : ChangeLanguage(code)
    \/ \E x \in Positions :
        OnResizePointerDown(x) \/ OnResizePointerMove(x) \/ OnResizePointerUp(x)

Spec == Init /\ [][Next]_vars

----------------------------------------------------------------------------

(* A painted page shows the theme that follows from the choice and the    *)
(* scheme the system has now, also when the scheme changed while another  *)
(* choice was active, unless it changed before the provider listened; and *)
(* no variable keeps the colour of an earlier theme, although none is     *)
(* ever removed (ThemeProvider.tsx:53-65, 74-101).                        *)
ThemeFollows ==
    page = "open" /\ ~due =>
        LET now == IF missed THEN system ELSE os
            own == activePreset(selection)
        IN /\ root.theme = (CASE own # NoPreset -> PRESET_THEMES[own].base
                              [] selection \in {Mode("light"), Mode("dark")} -> selection.id
                              [] OTHER -> now)
           /\ \A v \in CssVars : root.css[v] \in {root.theme, own, "brand"}

(* The next page load brings back the theme and the language that were    *)
(* last chosen and saved in any tab, from whatever localStorage held      *)
(* before (storage.ts:28-51, i18n/index.ts:61-75).                        *)
ChoiceKept ==
    /\ loadSelection(store.selection) = chosen.selection
    /\ Current(Detect(store.lang)) = chosen.lang

(* The sidebar stays within its bounds; during a drag its width is that   *)
(* of the press and the pointer's distance from it, whatever way the      *)
(* pointer went; and between drags it is the width the next load brings,  *)
(* unless a write was refused or another tab saved (AppShell.tsx:37-66).  *)
SiderHolds ==
    page # "closed" =>
        /\ width \in MIN_SIDER_WIDTH..MAX_SIDER_WIDTH
        /\ drag # NoDrag => width = clampSiderWidth(2 * drag.width + pointer - drag.x)
        /\ drag = NoDrag /\ ~behind => width = loadSiderWidth(store.width)

============================================================================
