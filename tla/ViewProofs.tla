----------------------------- MODULE ViewProofs -----------------------------
(***************************************************************************)
(* Proofs about what is on screen: Preferences, for every bound of the     *)
(* sidebar, every set of pointer positions, and whatever localStorage      *)
(* holds at the start, and ObjectView, for any objects, sizes and tables,  *)
(* and answers of any lateness.                                            *)
(***************************************************************************)
EXTENDS Preferences, ObjectView, CsvProofs, TLAPS

----------------------------------------------------------------------------
(* Widths.                                                                 *)

Widths == MIN_SIDER_WIDTH..MAX_SIDER_WIDTH

LEMMA RoundInt ==
  ASSUME NEW h \in Int
  PROVE  Round(h) \in Int
BY DEF Round

LEMMA RoundPixel ==
  ASSUME NEW w \in Int
  PROVE  Round(2 * w) = w
BY DEF Round

\* The bounds hold whatever is clamped.
LEMMA ClampBounds ==
  ASSUME NEW h \in Int
  PROVE  clampSiderWidth(h) \in Widths
<1>1. Round(h) \in Int
  BY RoundInt
<1>2. MIN_SIDER_WIDTH \in Int /\ MAX_SIDER_WIDTH \in Int /\ MIN_SIDER_WIDTH <= MAX_SIDER_WIDTH
  BY PreferencesAssumption
<1> QED BY <1>1, <1>2 DEF clampSiderWidth, Widths

\* A width within the bounds is its own clamped width.
LEMMA ClampKeeps ==
  ASSUME NEW w \in Widths
  PROVE  clampSiderWidth(2 * w) = w
<1>1. w \in Int /\ MIN_SIDER_WIDTH <= w /\ w <= MAX_SIDER_WIDTH
  BY PreferencesAssumption DEF Widths
<1>2. Round(2 * w) = w
  BY <1>1, RoundPixel
<1>3. MIN_SIDER_WIDTH \in Int /\ MAX_SIDER_WIDTH \in Int
  BY PreferencesAssumption
<1> QED BY <1>1, <1>2, <1>3 DEF clampSiderWidth

\* What is saved is what the next load brings.
LEMMA SavedLoads ==
  ASSUME NEW w \in Widths
  PROVE  /\ loadSiderWidth(Saved(w)) = w
         /\ Saved(w) \in [kind : {"missing", "text", "number"}, half : Int]
<1>1. clampSiderWidth(2 * w) = w
  BY ClampKeeps
<1>2. w \in Int /\ 2 * w \in Int
  BY PreferencesAssumption DEF Widths
<1>3. Saved(w) = [kind |-> "number", half |-> 2 * w]
  BY <1>1 DEF Saved
<1> QED BY <1>1, <1>2, <1>3 DEF loadSiderWidth

LEMMA LoadBounds ==
  ASSUME NEW i \in [kind : {"missing", "text", "number"}, half : Int]
  PROVE  loadSiderWidth(i) \in Widths
<1>1. i.half \in Int
  OBVIOUS
<1> QED BY <1>1, ClampBounds, PreferencesAssumption DEF loadSiderWidth, Widths

\* The inductive invariant: the types of what SiderHolds relates, of a
\* closed page too.
SiderInv ==
  /\ store.width \in [kind : {"missing", "text", "number"}, half : Int]
  /\ store = [selection |-> store.selection, width |-> store.width, lang |-> store.lang]
  /\ width \in Widths
  /\ drag \in [x : Int, width : Widths \cup {0}]
  /\ drag # NoDrag => drag.width \in Widths
  /\ behind \in BOOLEAN
  /\ pointer \in Int
  /\ page = "closed" => drag = NoDrag
  /\ SiderHolds

LEMMA SiderStep ==
  ASSUME SiderInv, [Next]_vars
  PROVE  SiderInv'
<1> USE DEF sider, theme
<1>0. /\ 0 \notin Widths /\ DEFAULT_SIDER_WIDTH \in Widths
      /\ Widths \subseteq Int
      /\ NoDrag \in [x : Int, width : Widths \cup {0}]
  BY PreferencesAssumption DEF Widths, NoDrag
<1>1. CASE Open
  <2>1. loadSiderWidth(store.width) \in Widths
    BY LoadBounds DEF SiderInv
  <2>2. store'.width = store.width /\ width' = loadSiderWidth(store.width) /\ drag' = drag
    BY <1>1 DEF Open, SiderInv
  <2>3. store' = [selection |-> store'.selection, width |-> store'.width, lang |-> store'.lang]
    BY <1>1 DEF Open, SiderInv
  <2>4. drag = NoDrag /\ behind' = FALSE /\ pointer' = pointer
    BY <1>1 DEF Open, SiderInv
  <2> QED BY <2>1, <2>2, <2>3, <2>4 DEF SiderInv, SiderHolds, Widths
<1>2. CASE Effects \/ OsChanges
  BY <1>2 DEF Effects, OsChanges, SiderInv, SiderHolds
<1>3. ASSUME NEW c \in Choices, Choose(c)
      PROVE  SiderInv'
  <2>1. /\ store'.width = store.width
        /\ store' = [selection |-> store'.selection, width |-> store'.width, lang |-> store'.lang]
    BY <1>3 DEF Choose, SiderInv
  <2>2. UNCHANGED <<page, width, drag, behind, pointer>>
    BY <1>3 DEF Choose
  <2> QED BY <2>1, <2>2 DEF SiderInv, SiderHolds
<1>4. ASSUME NEW code \in Languages, ChangeLanguage(code)
      PROVE  SiderInv'
  <2>1. /\ store'.width = store.width
        /\ store' = [selection |-> store'.selection, width |-> store'.width, lang |-> store'.lang]
    BY <1>4 DEF ChangeLanguage, SiderInv
  <2>2. UNCHANGED <<page, width, drag, behind, pointer>>
    BY <1>4 DEF ChangeLanguage
  <2> QED BY <2>1, <2>2 DEF SiderInv, SiderHolds
<1>5. ASSUME NEW x \in Positions, OnResizePointerDown(x)
      PROVE  SiderInv'
  <2>1. x \in Int
    BY PreferencesAssumption
  <2>2. drag' = [x |-> x, width |-> width] /\ pointer' = x /\ width' = width
    BY <1>5 DEF OnResizePointerDown
  <2>3. drag' # NoDrag /\ drag'.width = width /\ drag'.x = x /\ width \in Widths
    BY <1>0, <2>2 DEF NoDrag, SiderInv
  <2>4. clampSiderWidth(2 * width + x - x) = width
    <3>1. 2 * width + x - x = 2 * width
      BY <1>0, <2>1, <2>3
    <3> QED BY <2>3, <3>1, ClampKeeps
  <2>5. drag' \in [x : Int, width : Widths \cup {0}]
    BY <2>1, <2>2, <2>3
  <2> QED BY <1>5, <2>1, <2>2, <2>3, <2>4, <2>5 DEF OnResizePointerDown, SiderInv, SiderHolds
<1>6. ASSUME NEW x \in Positions, drag # NoDrag
      PROVE  x \in Int /\ dragWidth(x) \in Widths
  <2>1. x \in Int /\ drag.x \in Int /\ drag.width \in Int
    BY <1>0, <1>6, PreferencesAssumption DEF SiderInv
  <2>2. 2 * drag.width + x - drag.x \in Int
    BY <2>1
  <2> QED BY <2>1, <2>2, ClampBounds DEF dragWidth
<1>7. ASSUME NEW x \in Positions, OnResizePointerMove(x)
      PROVE  SiderInv'
  <2>1. x \in Int /\ dragWidth(x) \in Widths
    BY <1>6, <1>7 DEF OnResizePointerMove
  <2> QED BY <1>7, <2>1 DEF OnResizePointerMove, dragWidth, SiderInv, SiderHolds, Widths
<1>8. ASSUME NEW x \in Positions, OnResizePointerUp(x)
      PROVE  SiderInv'
  <2>1. x \in Int /\ dragWidth(x) \in Widths
    BY <1>6, <1>8 DEF OnResizePointerUp
  <2>2. UNCHANGED page /\ width' = dragWidth(x) /\ drag' = NoDrag /\ pointer' = x
    BY <1>8 DEF OnResizePointerUp
  <2>3. CASE store' = [store EXCEPT !.width = Saved(width')] /\ behind' = FALSE
    <3>1. /\ store'.width = Saved(width')
          /\ store' = [selection |-> store'.selection, width |-> store'.width, lang |-> store'.lang]
      BY <2>3 DEF SiderInv
    <3>2. /\ loadSiderWidth(store'.width) = width'
          /\ store'.width \in [kind : {"missing", "text", "number"}, half : Int]
      BY <2>1, <2>2, <3>1, SavedLoads
    <3> QED BY <1>0, <2>1, <2>2, <2>3, <3>1, <3>2 DEF SiderInv, SiderHolds, Widths
  <2>4. CASE behind' = TRUE /\ UNCHANGED store
    BY <1>0, <2>1, <2>2, <2>4 DEF SiderInv, SiderHolds, Widths
  <2> QED BY <1>8, <2>3, <2>4 DEF OnResizePointerUp
<1>9. CASE ShellRemounts
  <2>1. loadSiderWidth(store.width) \in Widths
    BY LoadBounds DEF SiderInv
  <2> QED BY <1>0, <1>9, <2>1 DEF ShellRemounts, SiderInv, SiderHolds, Widths
<1>10. CASE Close
  <2>1. page' = "closed" /\ UNCHANGED store
    BY <1>10 DEF Close
  <2>2. width' = DEFAULT_SIDER_WIDTH /\ drag' = NoDrag /\ behind' = FALSE /\ pointer' = 0
    BY <1>10 DEF Close
  <2>3. drag' \in [x : Int, width : Widths \cup {0}] /\ width' \in Widths
    BY <1>0, <2>2
  <2>4. SiderHolds'
    BY <2>1 DEF SiderHolds
  <2>5. behind' \in BOOLEAN
    BY <2>2, Zenon
  <2>6. pointer' \in Int
    BY <2>2, SMT
  <2> QED BY <2>1, <2>2, <2>3, <2>4, <2>5, <2>6 DEF SiderInv
<1>11. CASE OtherTabSaves
  <2>1. UNCHANGED <<page, width, drag, pointer>>
    BY <1>11 DEF OtherTabSaves
  <2>2. ASSUME NEW w \in Widths, store' = [store EXCEPT !.width = Saved(w)],
               behind' = (page # "closed")
        PROVE  SiderInv'
    <3>1. /\ store'.width = Saved(w)
          /\ store' = [selection |-> store'.selection, width |-> store'.width, lang |-> store'.lang]
      BY <2>2 DEF SiderInv
    <3>2. store'.width \in [kind : {"missing", "text", "number"}, half : Int]
      BY <3>1, SavedLoads
    <3> QED BY <2>1, <2>2, <3>1, <3>2 DEF SiderInv, SiderHolds
  <2>3. ASSUME NEW k, UNCHANGED behind,
               \/ store' = [store EXCEPT !.selection = k]
               \/ store' = [store EXCEPT !.lang = k]
        PROVE  SiderInv'
    <3>1. /\ store'.width = store.width
          /\ store' = [selection |-> store'.selection, width |-> store'.width, lang |-> store'.lang]
      BY <2>3 DEF SiderInv
    <3> QED BY <2>1, <2>3, <3>1 DEF SiderInv, SiderHolds
  <2> QED BY <1>11, <2>2, <2>3 DEF OtherTabSaves, Widths
<1>12. CASE UNCHANGED vars
  BY <1>12 DEF vars, SiderInv, SiderHolds
<1> QED
  BY <1>1, <1>2, <1>3, <1>4, <1>5, <1>7, <1>8, <1>9, <1>10, <1>11, <1>12 DEF Next

\* The sidebar stays within its bounds, follows the pointer from the press
\* and is brought back by the next load (AppShell.tsx:37-66).
THEOREM SiderHoldsAlways == Spec => []SiderHolds
<1>1. ASSUME Init PROVE SiderInv
  <2>1. /\ 0 \notin Widths /\ DEFAULT_SIDER_WIDTH \in Widths
        /\ NoDrag \in [x : Int, width : Widths \cup {0}]
    BY PreferencesAssumption DEF Widths, NoDrag
  <2>2. store \in [selection : OldSelections, width : OldWidths, lang : OldLanguages]
    BY <1>1 DEF Init
  <2>3. store.width \in [kind : {"missing", "text", "number"}, half : Int]
    BY <2>2, PreferencesAssumption
  <2>4. store = [selection |-> store.selection, width |-> store.width, lang |-> store.lang]
    BY <2>2
  <2>5. /\ page = "closed" /\ width = DEFAULT_SIDER_WIDTH /\ drag = NoDrag
        /\ behind = FALSE /\ pointer = 0
    BY <1>1 DEF Init
  <2>6. drag \in [x : Int, width : Widths \cup {0}] /\ width \in Widths
    BY <2>1, <2>5
  <2>7. SiderHolds
    BY <2>5 DEF SiderHolds
  <2>8. behind \in BOOLEAN
    BY <2>5, Zenon
  <2>9. pointer \in Int
    BY <2>5, SMT
  <2> QED BY <2>3, <2>4, <2>5, <2>6, <2>7, <2>8, <2>9 DEF SiderInv
<1>2. SiderInv => SiderHolds
  BY DEF SiderInv
<1> QED BY <1>1, <1>2, SiderStep, PTL DEF Spec

----------------------------------------------------------------------------
(* Themes.                                                                 *)

\* A value that parsed as one, and a selection.
IsItem(i) == i = [kind |-> i.kind, id |-> i.id]
IsSelection(sel) == IsItem(sel) /\ isValidSelection(sel)

\* The two shapes of a selection.
LEMMA Shapes ==
  /\ \A m \in Modes : IsSelection(Mode(m))
  /\ \A id : id # "" => IsSelection(Preset(id))
BY DEF IsSelection, IsItem, isValidSelection, Mode, Preset

LEMMA DefaultValid == IsSelection(DEFAULT_SELECTION)
BY Shapes DEF DEFAULT_SELECTION

\* Whatever was stored, what is loaded is a selection.
LEMMA LoadedValid ==
  ASSUME NEW i, IsItem(i)
  PROVE  IsSelection(loadSelection(i))
BY DefaultValid DEF loadSelection, IsSelection

\* Every entry of the menu survives being stored.
LEMMA MenuValid ==
  ASSUME NEW c \in Choices
  PROVE  IsSelection(c) /\ IsItem(c) /\ loadSelection(c) = c
<1>1. c \in MenuItems
  BY PreferencesAssumption
<1>2. ASSUME NEW m \in Modes, c = Mode(m)
      PROVE  IsSelection(c)
  BY <1>2, Shapes
<1>3. ASSUME NEW id \in DOMAIN PRESET_THEMES, c = Preset(id)
      PROVE  IsSelection(c)
  <2>1. id # ""
    BY DEF PRESET_THEMES
  <2> QED BY <1>3, <2>1, Shapes
<1>4. IsSelection(c)
  BY <1>1, <1>2, <1>3 DEF MenuItems
<1> QED BY <1>4 DEF IsSelection, loadSelection

\* The colours of a theme are its scheme's, its preset's or the brand's.
LEMMA Colours ==
  ASSUME NEW scheme, NEW preset, NEW v \in CssVars
  PROVE  computeCssVars(buildThemeConfig(scheme, preset))[v] \in {scheme, preset, "brand"}
<1>1. CASE v = "primary"
  BY <1>1 DEF computeCssVars, buildThemeConfig
<1>2. CASE v # "primary"
  <2>1. v \in Surfaces \cup Shadows
    BY <1>2 DEF CssVars
  <2>2. resolveSurfaces(scheme, preset)[v] \in {scheme, preset}
    BY <2>1 DEF resolveSurfaces
  <2> QED BY <1>2, <2>2 DEF computeCssVars, buildThemeConfig
<1> QED BY <1>1, <1>2

\* The effects set every variable, whatever was painted before.
LEMMA PaintsAll ==
  ASSUME NEW sel, NEW scheme
  PROVE  /\ Painted(sel, scheme).theme = resolveScheme(sel, scheme)
         /\ \A v \in CssVars : Painted(sel, scheme).css[v]
                \in {resolveScheme(sel, scheme), activePreset(sel), "brand"}
<1> DEFINE s == resolveScheme(sel, scheme)
           a == activePreset(sel)
           c == computeCssVars(buildThemeConfig(s, a))
<1>1. DOMAIN c = CssVars
  BY DEF computeCssVars
<1>2. \A v \in CssVars : c[v] \in {s, a, "brand"}
  BY Colours
<1>3. Painted(sel, scheme) =
        [theme |-> s, css |-> [v \in CssVars |-> IF v \in DOMAIN c THEN c[v] ELSE root.css[v]]]
  BY DEF Painted, applyCssVars
<1> HIDE DEF s, a, c
<1>4. /\ Painted(sel, scheme).theme = s
      /\ \A v \in CssVars : Painted(sel, scheme).css[v] \in {s, a, "brand"}
  BY <1>1, <1>2, <1>3
<1> QED BY <1>4 DEF s, a

\* The inductive invariant: a painted page shows what its effects computed,
\* and the provider knows the scheme unless it changed before it listened.
ThemeInv ==
  /\ page \in {"closed", "mounted", "open"}
  /\ IsItem(store.selection)
  /\ store = [selection |-> store.selection, width |-> store.width, lang |-> store.lang]
  /\ IsSelection(selection)
  /\ page # "closed" /\ ~missed => system = os
  /\ page = "mounted" => due
  /\ page = "open" /\ ~due =>
       /\ root.theme = resolveScheme(selection, system)
       /\ \A v \in CssVars : root.css[v] \in {root.theme, activePreset(selection), "brand"}

\* The scheme that follows from a valid selection.
LEMMA SchemeOf ==
  ASSUME NEW sel, IsSelection(sel), NEW scheme
  PROVE  resolveScheme(sel, scheme) =
           (CASE activePreset(sel) # NoPreset -> PRESET_THEMES[activePreset(sel)].base
              [] sel \in {Mode("light"), Mode("dark")} -> sel.id
              [] OTHER -> scheme)
<1>1. sel = [kind |-> sel.kind, id |-> sel.id] /\ isValidSelection(sel)
  BY DEF IsSelection, IsItem
<1>2. CASE sel.kind = "preset"
  <2>1. sel \notin {Mode("light"), Mode("dark")}
    BY <1>2 DEF Mode
  <2> QED BY <1>2, <2>1 DEF resolveScheme
<1>3. CASE sel.kind = "mode"
  <2>1. activePreset(sel) = NoPreset
    BY <1>3 DEF activePreset
  <2>2. sel.id \in Modes
    BY <1>1, <1>3 DEF isValidSelection
  <2>3. sel \in {Mode("light"), Mode("dark")} <=> sel.id # "system"
    BY <1>1, <1>3, <2>2 DEF Mode, Modes
  <2> QED BY <1>3, <2>1, <2>3 DEF resolveScheme
<1> QED BY <1>1, <1>2, <1>3 DEF isValidSelection

LEMMA ThemeStep ==
  ASSUME ThemeInv, [Next]_vars
  PROVE  ThemeInv'
<1> USE DEF sider, theme
<1>1. CASE Open
  <2>1. /\ store'.selection = store.selection
        /\ store' = [selection |-> store'.selection, width |-> store'.width, lang |-> store'.lang]
    BY <1>1 DEF Open, ThemeInv
  <2>2. IsSelection(selection')
    BY <1>1, LoadedValid DEF Open, ThemeInv
  <2>3. page' = "mounted" /\ due' = TRUE /\ system' = os /\ os' = os
    BY <1>1 DEF Open
  <2> QED BY <2>1, <2>2, <2>3 DEF ThemeInv
<1>2. CASE Effects
  <2>1. /\ page' = "open" /\ root' = Painted(selection, system)
        /\ UNCHANGED <<os, store, selection, system, missed>> /\ page # "closed"
    BY <1>2 DEF Effects
  <2>2. /\ root'.theme = resolveScheme(selection, system)
        /\ \A v \in CssVars : root'.css[v] \in {root'.theme, activePreset(selection), "brand"}
    BY <2>1, PaintsAll
  <2> QED BY <2>1, <2>2 DEF ThemeInv, resolveScheme, activePreset
<1>3. CASE OsChanges
  <2>1. CASE page = "open" /\ system' = OnChange(os') /\ due' = TRUE
    BY <1>3, <2>1 DEF OsChanges, OnChange, ThemeInv
  <2>2. CASE page # "open" /\ missed' = (page = "mounted") /\ UNCHANGED <<system, due>>
    BY <1>3, <2>2 DEF OsChanges, ThemeInv
  <2> QED BY <1>3, <2>1, <2>2 DEF OsChanges
<1>4. ASSUME NEW c \in Choices, Choose(c)
      PROVE  ThemeInv'
  <2>1. IsSelection(c) /\ IsItem(c)
    BY MenuValid
  <2>2. /\ IsItem(store'.selection)
        /\ store' = [selection |-> store'.selection, width |-> store'.width, lang |-> store'.lang]
    BY <1>4, <2>1 DEF Choose, ThemeInv
  <2>3. /\ page = "open" /\ selection' = c /\ root' = Painted(c, system)
        /\ UNCHANGED <<page, os, system, missed>>
    BY <1>4 DEF Choose
  <2>4. /\ root'.theme = resolveScheme(c, system)
        /\ \A v \in CssVars : root'.css[v] \in {root'.theme, activePreset(c), "brand"}
    BY <2>3, PaintsAll
  <2> QED BY <2>1, <2>2, <2>3, <2>4 DEF ThemeInv, resolveScheme, activePreset
<1>5. ASSUME NEW code \in Languages, ChangeLanguage(code)
      PROVE  ThemeInv'
  <2>1. /\ store'.selection = store.selection
        /\ store' = [selection |-> store'.selection, width |-> store'.width, lang |-> store'.lang]
    BY <1>5 DEF ChangeLanguage, ThemeInv
  <2>2. UNCHANGED <<page, os, theme, missed>>
    BY <1>5 DEF ChangeLanguage
  <2> QED BY <2>1, <2>2 DEF ThemeInv, resolveScheme, activePreset
<1>6. ASSUME NEW x \in Positions, OnResizePointerDown(x) \/ OnResizePointerMove(x)
      PROVE  ThemeInv'
  <2>1. UNCHANGED <<page, os, store, theme, missed>>
    BY <1>6 DEF OnResizePointerDown, OnResizePointerMove
  <2> QED BY <2>1 DEF ThemeInv, resolveScheme, activePreset
<1>7. ASSUME NEW x \in Positions, OnResizePointerUp(x)
      PROVE  ThemeInv'
  <2>1. /\ store'.selection = store.selection
        /\ store' = [selection |-> store'.selection, width |-> store'.width, lang |-> store'.lang]
    BY <1>7 DEF OnResizePointerUp, ThemeInv
  <2>2. UNCHANGED <<page, os, theme, missed>>
    BY <1>7 DEF OnResizePointerUp
  <2> QED BY <2>1, <2>2 DEF ThemeInv, resolveScheme, activePreset
<1>8. CASE ShellRemounts
  <2>1. UNCHANGED <<page, os, store, theme, missed>>
    BY <1>8 DEF ShellRemounts
  <2> QED BY <2>1 DEF ThemeInv, resolveScheme, activePreset
<1>9. CASE Close
  <2>1. page' = "closed" /\ selection' = DEFAULT_SELECTION /\ UNCHANGED store
    BY <1>9 DEF Close
  <2> QED BY <2>1, DefaultValid DEF ThemeInv
<1>10. CASE OtherTabSaves
  <2>1. UNCHANGED <<page, os, theme, missed>>
    BY <1>10 DEF OtherTabSaves
  <2>2. ASSUME NEW c \in Choices, store' = [store EXCEPT !.selection = c]
        PROVE  /\ IsItem(store'.selection)
               /\ store' = [selection |-> store'.selection, width |-> store'.width, lang |-> store'.lang]
    BY <2>2, MenuValid DEF ThemeInv
  <2>3. ASSUME NEW k, \/ store' = [store EXCEPT !.width = k]
                      \/ store' = [store EXCEPT !.lang = k]
        PROVE  /\ IsItem(store'.selection)
               /\ store' = [selection |-> store'.selection, width |-> store'.width, lang |-> store'.lang]
    BY <2>3 DEF ThemeInv
  <2>4. /\ IsItem(store'.selection)
        /\ store' = [selection |-> store'.selection, width |-> store'.width, lang |-> store'.lang]
    BY <1>10, <2>2, <2>3 DEF OtherTabSaves
  <2> QED BY <2>1, <2>4 DEF ThemeInv, resolveScheme, activePreset
<1>11. CASE UNCHANGED vars
  <2>1. UNCHANGED <<page, os, store, theme, missed>>
    BY <1>11 DEF vars
  <2> QED BY <2>1 DEF ThemeInv, resolveScheme, activePreset
<1> QED
  BY <1>1, <1>2, <1>3, <1>4, <1>5, <1>6, <1>7, <1>8, <1>9, <1>10, <1>11 DEF Next

\* A painted page shows the theme of its choice and of the scheme the system
\* has now, in all its variables (ThemeProvider.tsx:53-65, 74-101).
THEOREM ThemeFollowsAlways == Spec => []ThemeFollows
<1>1. ASSUME Init PROVE ThemeInv
  <2>1. store \in [selection : OldSelections, width : OldWidths, lang : OldLanguages]
    BY <1>1 DEF Init
  <2>2. IsItem(store.selection)
    BY <2>1, PreferencesAssumption DEF IsItem
  <2>3. page = "closed" /\ selection = DEFAULT_SELECTION
    BY <1>1 DEF Init
  <2> QED BY <2>1, <2>2, <2>3, DefaultValid DEF ThemeInv
<1>2. ASSUME ThemeInv PROVE ThemeFollows
  <2> SUFFICES ASSUME page = "open", ~due
               PROVE  /\ root.theme = (CASE activePreset(selection) # NoPreset
                                            -> PRESET_THEMES[activePreset(selection)].base
                                         [] selection \in {Mode("light"), Mode("dark")} -> selection.id
                                         [] OTHER -> IF missed THEN system ELSE os)
                      /\ \A v \in CssVars :
                           root.css[v] \in {root.theme, activePreset(selection), "brand"}
    BY DEF ThemeFollows
  <2>1. (IF missed THEN system ELSE os) = system
    BY <1>2 DEF ThemeInv
  <2>2. IsSelection(selection) /\ root.theme = resolveScheme(selection, system)
    BY <1>2 DEF ThemeInv
  <2>3. \A v \in CssVars : root.css[v] \in {root.theme, activePreset(selection), "brand"}
    BY <1>2 DEF ThemeInv
  <2> QED BY <2>1, <2>2, <2>3, SchemeOf
<1> QED BY <1>1, <1>2, ThemeStep, PTL DEF Spec

----------------------------------------------------------------------------
(* What is brought back.                                                   *)

\* The codes a page may be left with: supported ones.
Known(code) == code \in Codes /\ code[1] \in SUPPORTED_LANGUAGES

\* Whatever is stored, a supported code is detected.
LEMMA DetectsKnown ==
  ASSUME NEW l \in Seq(Codes)
  PROVE  Known(Detect(l))
<1> DEFINE codes == l \o Navigator
           supported == {i \in 1..Len(codes) : codes[i][1] \in SUPPORTED_LANGUAGES}
           least == CHOOSE i \in supported : \A j \in supported : i <= j
<1>1. codes \in Seq(Codes)
  BY PreferencesAssumption
<1>2. Detect(l) = IF supported = {} THEN <<"en">> ELSE codes[least]
  BY DEF Detect
<1>3. CASE supported = {}
  <2>1. <<"en">> \in Codes
    BY PreferencesAssumption
  <2> QED BY <1>2, <1>3, <2>1 DEF Known, SUPPORTED_LANGUAGES
<1>4. CASE supported # {}
  <2>0. supported \subseteq Nat
    BY <1>1
  <2>1. \E i \in supported : \A j \in supported : i <= j
    <3> HIDE DEF supported
    <3> QED BY <1>4, <2>0, LeastExists
  <2>2. least \in supported
    BY <2>1
  <2> HIDE DEF least, codes
  <2>3. codes[least] \in Codes /\ codes[least][1] \in SUPPORTED_LANGUAGES
    BY <1>1, <2>2
  <2> QED BY <1>2, <1>4, <2>3 DEF Known
<1> QED BY <1>3, <1>4

\* A supported code that was stored is the one detected.
LEMMA DetectsStored ==
  ASSUME NEW code, Known(code)
  PROVE  Detect(<<code>>) = code
<1> DEFINE codes == <<code>> \o Navigator
           supported == {i \in 1..Len(codes) : codes[i][1] \in SUPPORTED_LANGUAGES}
           least == CHOOSE i \in supported : \A j \in supported : i <= j
<1>1. code \in Codes /\ <<code>> \in Seq(Codes) /\ Navigator \in Seq(Codes)
  BY PreferencesAssumption DEF Known
<1>2. codes \in Seq(Codes) /\ codes[1] = code /\ Len(codes) >= 1
  BY <1>1
<1>3. Detect(<<code>>) = IF supported = {} THEN <<"en">> ELSE codes[least]
  BY DEF Detect
<1> HIDE DEF codes
<1>4. 1 \in supported /\ \A j \in supported : 1 <= j /\ j \in Int
  BY <1>2 DEF Known
<1>5. least \in supported /\ \A j \in supported : least <= j
  BY <1>4
<1>6. least = 1
  BY <1>4, <1>5
<1> HIDE DEF least, supported
<1> QED BY <1>2, <1>3, <1>4, <1>6

\* The inductive invariant: the shapes of what is stored and of what is
\* remembered of the choices.
ChoiceInv ==
  /\ IsItem(store.selection)
  /\ store.lang \in Seq(Codes)
  /\ store = [selection |-> store.selection, width |-> store.width, lang |-> store.lang]
  /\ chosen = [selection |-> chosen.selection, lang |-> chosen.lang]
  /\ ChoiceKept

\* Each write to localStorage keeps it.
LEMMA SelectionWrite ==
  ASSUME ChoiceInv, NEW c \in Choices,
         store' = [store EXCEPT !.selection = c], chosen' = [chosen EXCEPT !.selection = c]
  PROVE  ChoiceInv'
<1>1. IsItem(c) /\ loadSelection(c) = c
  BY MenuValid
<1>2. /\ store' = [selection |-> c, width |-> store.width, lang |-> store.lang]
      /\ chosen' = [selection |-> c, lang |-> chosen.lang]
  BY DEF ChoiceInv
<1> QED BY <1>1, <1>2 DEF ChoiceInv, ChoiceKept

LEMMA LanguageWrite ==
  ASSUME ChoiceInv, NEW code, Known(code), store' = [store EXCEPT !.lang = <<code>>],
         chosen' = [chosen EXCEPT !.lang = Current(code)]
  PROVE  ChoiceInv'
<1>1. Detect(<<code>>) = code
  BY DetectsStored
<1>2. /\ store' = [selection |-> store.selection, width |-> store.width, lang |-> <<code>>]
      /\ chosen' = [selection |-> chosen.selection, lang |-> Current(code)]
  BY DEF ChoiceInv
<1>3. <<code>> \in Seq(Codes)
  BY DEF Known
<1> QED BY <1>1, <1>2, <1>3 DEF ChoiceInv, ChoiceKept

LEMMA WidthWrite ==
  ASSUME ChoiceInv, NEW w, store' = [store EXCEPT !.width = w], UNCHANGED chosen
  PROVE  ChoiceInv'
<1>1. store' = [selection |-> store.selection, width |-> w, lang |-> store.lang]
  BY DEF ChoiceInv
<1> QED BY <1>1 DEF ChoiceInv, ChoiceKept

LEMMA NoWrite ==
  ASSUME ChoiceInv, UNCHANGED <<store, chosen>>
  PROVE  ChoiceInv'
BY DEF ChoiceInv, ChoiceKept

LEMMA ChoiceStep ==
  ASSUME ChoiceInv, [Next]_vars
  PROVE  ChoiceInv'
<1> USE DEF sider, theme
<1>1. CASE Open
  <2> DEFINE d == Detect(store.lang)
  <2>1. Known(d)
    BY DetectsKnown DEF ChoiceInv
  <2>2. store' = [store EXCEPT !.lang = <<d>>] /\ chosen' = chosen
    BY <1>1 DEF Open
  <2>3. chosen.lang = Current(d)
    BY DEF ChoiceInv, ChoiceKept
  <2> HIDE DEF d
  <2>4. chosen' = [chosen EXCEPT !.lang = Current(d)]
    BY <2>2, <2>3 DEF ChoiceInv
  <2> QED BY <2>1, <2>2, <2>4, LanguageWrite
<1>2. CASE Effects \/ OsChanges \/ ShellRemounts \/ Close
  BY <1>2, NoWrite DEF Effects, OsChanges, ShellRemounts, Close
<1>3. ASSUME NEW c \in Choices, Choose(c)
      PROVE  ChoiceInv'
  BY <1>3, SelectionWrite, NoWrite DEF Choose
<1>4. ASSUME NEW code \in Languages
      PROVE  Known(code)
  BY PreferencesAssumption DEF Known
<1>5. ASSUME NEW code \in Languages, ChangeLanguage(code)
      PROVE  ChoiceInv'
  BY <1>4, <1>5, LanguageWrite, NoWrite DEF ChangeLanguage
<1>6. ASSUME NEW x \in Positions, OnResizePointerDown(x) \/ OnResizePointerMove(x)
      PROVE  ChoiceInv'
  BY <1>6, NoWrite DEF OnResizePointerDown, OnResizePointerMove
<1>7. ASSUME NEW x \in Positions, OnResizePointerUp(x)
      PROVE  ChoiceInv'
  <2>1. UNCHANGED chosen
    BY <1>7 DEF OnResizePointerUp
  <2>2. store' = [store EXCEPT !.width = Saved(width')] \/ UNCHANGED store
    BY <1>7 DEF OnResizePointerUp
  <2> QED BY <2>1, <2>2, WidthWrite, NoWrite
<1>8. CASE OtherTabSaves
  <2>1. ASSUME NEW c \in Choices, store' = [store EXCEPT !.selection = c],
               chosen' = [chosen EXCEPT !.selection = c]
        PROVE  ChoiceInv'
    BY <2>1, SelectionWrite
  <2>2. ASSUME NEW w, store' = [store EXCEPT !.width = Saved(w)], UNCHANGED chosen
        PROVE  ChoiceInv'
    BY <2>2, WidthWrite
  <2>3. ASSUME NEW code \in Languages, store' = [store EXCEPT !.lang = <<code>>],
               chosen' = [chosen EXCEPT !.lang = Current(code)]
        PROVE  ChoiceInv'
    BY <1>4, <2>3, LanguageWrite
  <2> QED BY <1>8, <2>1, <2>2, <2>3 DEF OtherTabSaves
<1>9. CASE UNCHANGED vars
  BY <1>9, NoWrite DEF vars
<1> QED BY <1>1, <1>2, <1>3, <1>5, <1>6, <1>7, <1>8, <1>9 DEF Next

\* The next load brings back the theme and the language last chosen and saved
\* in any tab, whatever localStorage held before (storage.ts:28-51,
\* i18n/index.ts:61-75).
THEOREM ChoiceKeptAlways == Spec => []ChoiceKept
<1>1. ASSUME Init PROVE ChoiceInv
  <2>1. store \in [selection : OldSelections, width : OldWidths, lang : OldLanguages]
    BY <1>1 DEF Init
  <2>2. IsItem(store.selection)
    BY <2>1, PreferencesAssumption DEF IsItem
  <2>3. store.lang \in Seq(Codes)
    BY <2>1, PreferencesAssumption
  <2>4. chosen = [selection |-> loadSelection(store.selection),
                  lang |-> Current(Detect(store.lang))]
    BY <1>1 DEF Init
  <2> QED BY <2>1, <2>2, <2>3, <2>4 DEF ChoiceInv, ChoiceKept
<1>2. ChoiceInv => ChoiceKept
  BY DEF ChoiceInv
<1> QED BY <1>1, <1>2, ChoiceStep, PTL DEF Spec

----------------------------------------------------------------------------
(* The object table and its panels.                                        *)

MaybeObjects == Objects \cup {None}

PropsOK ==
    /\ bucket \in Buckets
    /\ moving \in BOOLEAN
    /\ rows \subseteq Keys
    /\ loading \in BOOLEAN
    /\ search \in BOOLEAN
    /\ preview \in PreviewChoices \cup {None}
    /\ metaKey \in Keys \cup {None}

PanelRecords ==
    [status : {"off", "unsupported", "too-large", "loading", "ready", "error"},
     urlRef : MaybeObjects, shown : MaybeObjects, view : {"rendered", "source"}]

MetaRecords == [loading : BOOLEAN, shown : MaybeObjects]

RequestRecords ==
    [kind : {"free", "blob", "text", "meta", "save"}, object : MaybeObjects, on : BOOLEAN]

ViewTypeOK ==
    /\ PropsOK
    /\ panel \in PanelRecords
    /\ meta \in MetaRecords
    /\ calls \in [Calls -> RequestRecords]

\* The requests whose answers the two panels still wait for.
PreviewWaits(c) == calls[c].kind \in {"blob", "text"} /\ calls[c].on
MetaWaits(c) == calls[c].kind = "meta" /\ calls[c].on

\* One run of FilePreview is not cancelled, it is of the object the panel is
\* open for, and until its answer the panel shows nothing and owns no URL.
PanelOK ==
    /\ PreviewDeps = None => panel.urlRef = None /\ panel.shown = None
    /\ panel.shown # None => panel.shown = PreviewDeps.object
    /\ liveUrls = IF panel.urlRef # None THEN 1 ELSE 0
    /\ \A c \in Calls : PreviewWaits(c) =>
          /\ PreviewDeps # None
          /\ calls[c].object = PreviewDeps.object
          /\ panel.urlRef = None /\ panel.shown = None
    /\ \A c, d \in Calls : PreviewWaits(c) /\ PreviewWaits(d) => c = d

\* ObjectMeta cancels nothing: its requests are of the object it is open for
\* because that object changes under it for the time of a commit only, at
\* whose end it is unmounted.
MetaOK ==
    /\ MetaDeps = None => meta = NoMeta
    /\ meta.shown # None => meta.shown = MetaDeps \/ (moving /\ meta.loading)
    /\ ~moving => \A c \in Calls : MetaWaits(c) =>
          MetaDeps # None /\ calls[c].object = MetaDeps

ViewInv == ViewTypeOK /\ PanelOK /\ MetaOK

\* What the panels depend on are objects.
DepsOK ==
    /\ PreviewDeps # None =>
          PreviewDeps.object \in Objects /\ preview # None
    /\ MetaDeps \in MaybeObjects
    /\ preview # None => preview.key \in Keys

LEMMA ObjectsAreObjects ==
  /\ None \notin Objects
  /\ PropsOK => \A k \in Keys : Object(k) \in Objects
BY ViewAssumption DEF Object, Objects, PropsOK

LEMMA PropsGiveDeps == PropsOK => DepsOK
<1> SUFFICES ASSUME PropsOK
             PROVE  DepsOK
  OBVIOUS
<1>1. /\ preview # None => preview.key \in Keys
      /\ metaKey # None => metaKey \in Keys
  BY DEF PropsOK, PreviewChoices
<1>2. PreviewDeps # None =>
          PreviewDeps.object = Object(preview.key) /\ preview # None
  BY DEF PreviewDeps
<1>3. MetaDeps # None => MetaDeps = Object(metaKey) /\ metaKey # None
  BY DEF MetaDeps
<1> QED BY <1>1, <1>2, <1>3, ObjectsAreObjects DEF DepsOK, MaybeObjects

LEMMA PropsKept ==
  ASSUME PropsOK, UNCHANGED props
  PROVE  /\ PropsOK'
         /\ PreviewDeps' = PreviewDeps
         /\ MetaDeps' = MetaDeps
         /\ moving' = moving
BY DEF props, PropsOK, PreviewDeps, MetaDeps, Skeleton, DataSource,
       Object

LEMMA OpenedOK ==
  ASSUME NEW deps
  PROVE  /\ Opened(deps) \in PanelRecords
         /\ Opened(deps).urlRef = None
         /\ Opened(deps).shown = None
<1>1. CASE deps = None
  BY <1>1 DEF Opened, NoPanel, PanelRecords, MaybeObjects
<1>2. CASE deps # None
  <2> DEFINE status == CASE previewKindFor(deps.object.key) = "unsupported" -> "unsupported"
                         [] Fetches(deps) -> "loading"
                         [] OTHER -> "too-large"
  <2>1. status \in {"unsupported", "loading", "too-large"}
    BY Zenon
  <2>2. Opened(deps) = [NoPanel EXCEPT !.status = status]
    BY <1>2, Zenon DEF Opened
  <2> HIDE DEF status
  <2> QED BY <2>1, <2>2 DEF NoPanel, PanelRecords, MaybeObjects
<1> QED BY <1>1, <1>2

LEMMA RequestOK ==
  ASSUME NEW kind \in {"blob", "meta", "save"}, NEW o \in MaybeObjects
  PROVE  /\ Request(kind, o) \in RequestRecords
         /\ Request(kind, o) = [kind |-> kind, object |-> o, on |-> TRUE]
         /\ Free \in RequestRecords
         /\ Free.kind = "free"
BY DEF Request, Free, RequestRecords, MaybeObjects

\* The object of ObjectMeta is the same after a step as before, or there is
\* none on one side of it, or the bucket moves.
MetaSettled ==
    \/ MetaDeps' = None
    \/ ~moving /\ (moving' \/ MetaDeps = None \/ MetaDeps' = MetaDeps)

\* New props are committed.
LEMMA CommitKeeps ==
  ASSUME ViewInv, PropsOK', Commit, MetaSettled
  PROVE  ViewInv'
<1> DEFINE old == PreviewDeps
           new == PreviewDeps'
           was == MetaDeps
           is == MetaDeps'
           moved == new # old
           asked == is # was
           cancelled == {c \in Calls :
                           \/ moved /\ calls[c].kind \in {"blob", "text"}
                           \/ is = None /\ calls[c].kind = "meta"}
           Stays(c) == IF c \in cancelled THEN [calls[c] EXCEPT !.on = FALSE] ELSE calls[c]
           starts == moved /\ new # None /\ Fetches(new)
           asks == asked /\ is # None
<1>1. /\ panel' = IF moved THEN Opened(new) ELSE panel
      /\ liveUrls' = IF moved THEN Revoked ELSE liveUrls
      /\ meta' = IF is = None THEN NoMeta ELSE [meta EXCEPT !.loading = @ \/ asked]
  BY DEF Commit
<1>2. PICK b \in Slots(starts), m \in Slots(asks) :
        calls' = [c \in Calls |->
              IF c = b /\ starts THEN Request("blob", new.object)
              ELSE IF c = m /\ asks THEN Request("meta", is)
              ELSE Stays(c)]
  BY DEF Commit
<1>3. /\ new # None => new.object \in MaybeObjects /\ new.object # None
      /\ is \in MaybeObjects
  <2>1. (PropsOK => DepsOK)'
    BY PropsGiveDeps, PTL
  <2>2. DepsOK'
    BY <2>1, Zenon
  <2> QED BY <2>2, ObjectsAreObjects DEF DepsOK, MaybeObjects
<1>4. ViewTypeOK /\ PanelOK /\ MetaOK
  BY DEF ViewInv
<1>5. \A c \in Calls :
         /\ Stays(c) \in RequestRecords
         /\ Stays(c).kind = calls[c].kind /\ Stays(c).object = calls[c].object
         /\ Stays(c).on => calls[c].on /\ c \notin cancelled
  <2> SUFFICES ASSUME NEW c \in Calls
               PROVE  /\ Stays(c) \in RequestRecords
                      /\ Stays(c).kind = calls[c].kind
                      /\ Stays(c).object = calls[c].object
                      /\ Stays(c).on => calls[c].on /\ c \notin cancelled
    OBVIOUS
  <2>1. calls[c] \in RequestRecords
    BY <1>4 DEF ViewTypeOK
  <2> HIDE DEF cancelled
  <2> QED BY <2>1 DEF RequestRecords
<1>6. \A c \in Calls :
         /\ calls'[c] \in RequestRecords
         /\ PreviewWaits(c)' =>
               \/ c = b /\ starts /\ calls'[c].object = new.object
               \/ ~moved /\ PreviewWaits(c) /\ calls'[c].object = calls[c].object
         /\ MetaWaits(c)' =>
               \/ is # None /\ calls'[c].object = is
               \/ is # None /\ MetaWaits(c) /\ calls'[c].object = calls[c].object
  <2> SUFFICES ASSUME NEW c \in Calls
               PROVE  /\ calls'[c] \in RequestRecords
                      /\ PreviewWaits(c)' =>
                            \/ c = b /\ starts /\ calls'[c].object = new.object
                            \/ /\ ~moved /\ PreviewWaits(c)
                               /\ calls'[c].object = calls[c].object
                      /\ MetaWaits(c)' =>
                            \/ is # None /\ calls'[c].object = is
                            \/ /\ is # None /\ MetaWaits(c)
                               /\ calls'[c].object = calls[c].object
    OBVIOUS
  <2> HIDE DEF moved, asked, is, new, Stays
  <2>1. CASE c = b /\ starts
    <3>1. calls'[c] = Request("blob", new.object)
      BY <1>2, <2>1
    <3>2. new.object \in MaybeObjects
      BY <1>3, <2>1
    <3> QED BY <2>1, <3>1, <3>2, RequestOK DEF PreviewWaits, MetaWaits
  <2>2. CASE ~(c = b /\ starts) /\ c = m /\ asks
    <3>1. calls'[c] = Request("meta", is)
      BY <1>2, <2>2
    <3> QED BY <1>3, <2>2, <3>1, RequestOK DEF PreviewWaits, MetaWaits
  <2>3. CASE ~(c = b /\ starts) /\ ~(c = m /\ asks)
    <3>1. calls'[c] = Stays(c)
      BY <1>2, <2>3
    <3>2. /\ calls'[c] \in RequestRecords
          /\ calls'[c].kind = calls[c].kind /\ calls'[c].object = calls[c].object
          /\ calls'[c].on => calls[c].on /\ c \notin cancelled
      BY <1>5, <3>1
    <3> QED BY <3>2 DEF PreviewWaits, MetaWaits
  <2> QED BY <2>1, <2>2, <2>3
<1>7. calls' \in [Calls -> RequestRecords]
  <2> HIDE DEF Stays, starts, asks
  <2> QED BY <1>2, <1>6
<1>8. /\ panel' \in PanelRecords
      /\ moved => panel'.urlRef = None /\ panel'.shown = None /\ liveUrls' = 0
      /\ ~moved => panel' = panel /\ liveUrls' = liveUrls
  <2>1. CASE moved
    <3>1. panel' = Opened(new) /\ liveUrls' = Revoked
      BY <1>1, <2>1
    <3>2. Revoked = 0
      BY <1>4 DEF PanelOK, Revoked
    <3> QED BY <2>1, <3>1, <3>2, OpenedOK
  <2>2. CASE ~moved
    BY <1>1, <1>4, <2>2 DEF ViewTypeOK
  <2> QED BY <2>1, <2>2
<1>9. PanelOK'
  <2>1. CASE moved
    <3> HIDE DEF moved, starts
    <3>1. \A c \in Calls : PreviewWaits(c)' =>
              c = b /\ starts /\ calls'[c].object = new.object
      BY <1>6, <2>1
    <3>2. starts => new # None
      BY DEF starts
    <3> QED BY <1>8, <2>1, <3>1, <3>2 DEF PanelOK
  <2>2. CASE ~moved
    <3>1. \A c \in Calls : PreviewWaits(c)' =>
              PreviewWaits(c) /\ calls'[c].object = calls[c].object
      BY <1>6, <2>2
    <3> QED BY <1>4, <1>8, <2>2, <3>1 DEF PanelOK
  <2> QED BY <2>1, <2>2
<1>10. meta' \in MetaRecords /\ MetaOK'
  <2>1. CASE is = None
    <3>1. meta' = NoMeta
      BY <1>1, <2>1
    <3>2. \A c \in Calls : ~MetaWaits(c)'
      BY <1>6, <2>1
    <3> QED BY <2>1, <3>1, <3>2 DEF MetaOK, NoMeta, MetaRecords, MaybeObjects
  <2>2. CASE is # None
    <3>1. ~moving /\ (moving' \/ was = None \/ is = was)
      BY <2>2 DEF MetaSettled
    <3>2. meta' = [meta EXCEPT !.loading = @ \/ asked]
      BY <1>1, <2>2
    <3>3. meta \in MetaRecords
      BY <1>4 DEF ViewTypeOK
    <3>4. meta.shown # None => meta.shown = was /\ was # None
      BY <1>4, <3>1 DEF MetaOK, NoMeta
    <3>5. ~moving' => \A c \in Calls : MetaWaits(c)' => calls'[c].object = is
      BY <1>4, <1>6, <3>1 DEF MetaOK
    <3>6. /\ meta' \in MetaRecords /\ meta'.shown = meta.shown
          /\ asked => meta'.loading
      <4> HIDE DEF asked
      <4>1. /\ meta' \in MetaRecords /\ meta'.shown = meta.shown
            /\ meta'.loading = (meta.loading \/ asked)
        BY <3>2, <3>3 DEF MetaRecords
      <4> QED BY <4>1, Zenon
    <3> QED BY <2>2, <3>1, <3>4, <3>5, <3>6 DEF MetaOK
  <2> QED BY <2>1, <2>2
<1> QED BY <1>7, <1>8, <1>9, <1>10 DEF ViewInv, ViewTypeOK

\* Props the panel of ObjectMeta stays mounted for, or is unmounted by.
LEMMA MetaStays ==
  ASSUME ~moving, UNCHANGED <<bucket, metaKey>>
  PROVE  MetaSettled
BY DEF MetaSettled, MetaDeps, Object

LEMMA MetaOpens ==
  ASSUME \/ ~moving /\ metaKey = None
         \/ metaKey' = None
         \/ Skeleton'
  PROVE  MetaSettled
BY DEF MetaSettled, MetaDeps

LEMMA OpenPreviewKeeps ==
  ASSUME ViewInv, OpenPreview
  PROVE  ViewInv'
<1>1. /\ ~moving /\ PropsOK /\ Commit
      /\ UNCHANGED <<bucket, moving, rows, loading, search, metaKey>>
      /\ \E k \in DataSource, n \in Sizes : preview' = [key |-> k, size |-> n]
  BY DEF ViewInv, ViewTypeOK, OpenPreview, Uncovered, Idle
<1>2. DataSource \subseteq Keys
  BY <1>1 DEF PropsOK, DataSource
<1>3. preview' \in PreviewChoices
  BY <1>1, <1>2 DEF PreviewChoices
<1>4. PropsOK'
  BY <1>1, <1>3 DEF PropsOK
<1> QED BY <1>1, <1>4, MetaStays, CommitKeeps

LEMMA ClosePreviewKeeps ==
  ASSUME ViewInv, ClosePreview
  PROVE  ViewInv'
<1>1. /\ ~moving /\ PropsOK /\ Commit /\ preview' = None
      /\ UNCHANGED <<bucket, moving, rows, loading, search, metaKey>>
  BY DEF ViewInv, ViewTypeOK, ClosePreview, Idle
<1>2. PropsOK'
  BY <1>1 DEF PropsOK
<1> QED BY <1>1, <1>2, MetaStays, CommitKeeps

LEMMA OpenMetaKeeps ==
  ASSUME ViewInv, OpenMeta
  PROVE  ViewInv'
<1>1. /\ ~moving /\ PropsOK /\ Commit /\ metaKey = None /\ metaKey' \in DataSource
      /\ UNCHANGED <<bucket, moving, rows, loading, search, preview>>
  BY DEF ViewInv, ViewTypeOK, OpenMeta, Uncovered, Idle
<1>2. PropsOK'
  BY <1>1 DEF PropsOK, DataSource
<1> QED BY <1>1, <1>2, MetaOpens, CommitKeeps

LEMMA CloseMetaKeeps ==
  ASSUME ViewInv, CloseMeta
  PROVE  ViewInv'
<1>1. /\ ~moving /\ PropsOK /\ Commit /\ metaKey' = None
      /\ UNCHANGED <<bucket, moving, rows, loading, search, preview>>
  BY DEF ViewInv, ViewTypeOK, CloseMeta, Idle
<1>2. PropsOK'
  BY <1>1 DEF PropsOK
<1> QED BY <1>1, <1>2, MetaOpens, CommitKeeps

LEMMA SearchKeeps ==
  ASSUME ViewInv, Search
  PROVE  ViewInv'
<1>1. /\ ~moving /\ PropsOK /\ Commit /\ search' = ~search
      /\ UNCHANGED <<bucket, moving, rows, loading, preview, metaKey>>
  BY DEF ViewInv, ViewTypeOK, Search, Uncovered, Idle
<1>2. PropsOK'
  BY <1>1 DEF PropsOK
<1> QED BY <1>1, <1>2, MetaStays, CommitKeeps

\* The bucket moves under the panels.
LEMMA MoveBucketKeeps ==
  ASSUME ViewInv, MoveBucket
  PROVE  ViewInv'
<1>1. /\ ~moving /\ PropsOK /\ Commit /\ bucket' \in Buckets /\ moving' = TRUE
      /\ UNCHANGED <<rows, loading, search, preview, metaKey>>
  BY DEF ViewInv, ViewTypeOK, MoveBucket, Idle
<1>2. PropsOK'
  BY <1>1 DEF PropsOK
<1>3. MetaSettled
  BY <1>1 DEF MetaSettled
<1> QED BY <1>1, <1>2, <1>3, CommitKeeps

\* Rows are fetched: nothing is there to show, and both panels are unmounted.
LEMMA FetchKeeps ==
  ASSUME ViewInv, Fetch
  PROVE  ViewInv'
<1>1. /\ PropsOK /\ Commit /\ rows' = {} /\ loading' = TRUE /\ moving' = FALSE
      /\ UNCHANGED <<bucket, search, preview, metaKey>>
  BY DEF ViewInv, ViewTypeOK, Fetch
<1>2. PropsOK'
  BY <1>1 DEF PropsOK
<1>3. Skeleton'
  BY <1>1 DEF Skeleton, DataSource
<1> QED BY <1>1, <1>2, <1>3, MetaOpens, CommitKeeps

LEMMA LoadMoreKeeps ==
  ASSUME ViewInv, LoadMore
  PROVE  ViewInv'
<1>1. /\ ~moving /\ PropsOK /\ Commit /\ loading' = TRUE
      /\ UNCHANGED <<bucket, moving, rows, search, preview, metaKey>>
  BY DEF ViewInv, ViewTypeOK, LoadMore, Uncovered, Idle
<1>2. PropsOK'
  BY <1>1 DEF PropsOK
<1> QED BY <1>1, <1>2, MetaStays, CommitKeeps

LEMMA ListedKeeps ==
  ASSUME ViewInv, Listed
  PROVE  ViewInv'
<1>1. /\ ~moving /\ PropsOK /\ Commit /\ loading' = FALSE /\ rows' \subseteq Keys
      /\ UNCHANGED <<bucket, moving, search, preview, metaKey>>
  BY DEF ViewInv, ViewTypeOK, Listed, Idle
<1>2. PropsOK'
  BY <1>1 DEF PropsOK
<1> QED BY <1>1, <1>2, MetaStays, CommitKeeps

\* The last answer to a run of FilePreview: shown if the run is not cancelled.
LEMMA AnswerKeeps ==
  ASSUME ViewInv, NEW c \in Calls, calls[c].kind \in {"blob", "text"},
         UNCHANGED <<props, meta>>,
         calls' = [calls EXCEPT ![c] = Free],
         panel' \in PanelRecords,
         ~calls[c].on => panel' = panel /\ liveUrls' = liveUrls,
         panel'.urlRef \in {panel.urlRef, calls[c].object},
         panel'.shown \in {panel.shown, calls[c].object},
         calls[c].on => liveUrls' = liveUrls + (IF panel'.urlRef # None THEN 1 ELSE 0)
  PROVE  ViewInv'
<1>1. ViewTypeOK /\ PropsOK /\ PanelOK /\ MetaOK
  BY DEF ViewInv, ViewTypeOK
<1>2. /\ PropsOK'
      /\ PreviewDeps' = PreviewDeps
      /\ MetaDeps' = MetaDeps
      /\ moving' = moving
  BY <1>1, PropsKept
<1>3. /\ calls' \in [Calls -> RequestRecords]
      /\ calls'[c].kind = "free"
      /\ \A d \in Calls \ {c} : calls'[d] = calls[d]
  BY <1>1, RequestOK DEF ViewTypeOK, Free, RequestRecords, MaybeObjects
<1>4. ViewTypeOK'
  BY <1>1, <1>2, <1>3 DEF ViewTypeOK
<1>5. \A d \in Calls :
         /\ PreviewWaits(d)' => d # c /\ PreviewWaits(d) /\ calls'[d] = calls[d]
         /\ MetaWaits(d)' => MetaWaits(d) /\ calls'[d] = calls[d]
  BY <1>3 DEF PreviewWaits, MetaWaits
<1>6. MetaOK'
  BY <1>1, <1>2, <1>5 DEF MetaOK
<1>7. PanelOK'
  <2>1. CASE calls[c].on
    <3>1. PreviewWaits(c)
      BY <2>1 DEF PreviewWaits
    <3>2. /\ PreviewDeps # None /\ calls[c].object = PreviewDeps.object
          /\ panel.urlRef = None /\ panel.shown = None /\ liveUrls = 0
      BY <1>1, <3>1 DEF PanelOK
    <3>3. \A d \in Calls : ~PreviewWaits(d)'
      BY <1>1, <1>5, <3>1 DEF PanelOK
    <3> QED BY <1>2, <2>1, <3>2, <3>3 DEF PanelOK
  <2>2. CASE ~calls[c].on
    BY <1>1, <1>2, <1>5, <2>2 DEF PanelOK
  <2> QED BY <2>1, <2>2
<1> QED BY <1>4, <1>6, <1>7 DEF ViewInv

LEMMA PanelChanges ==
  ASSUME panel \in PanelRecords, NEW o \in MaybeObjects,
         NEW status \in {"too-large", "ready", "error"}
  PROVE  /\ [panel EXCEPT !.status = status] \in PanelRecords
         /\ [panel EXCEPT !.status = status].urlRef = panel.urlRef
         /\ [panel EXCEPT !.status = status].shown = panel.shown
         /\ [panel EXCEPT !.status = status, !.shown = o] \in PanelRecords
         /\ [panel EXCEPT !.status = status, !.shown = o].urlRef = panel.urlRef
         /\ [panel EXCEPT !.status = status, !.shown = o].shown = o
         /\ [panel EXCEPT !.status = status, !.urlRef = o, !.shown = o] \in PanelRecords
         /\ [panel EXCEPT !.status = status, !.urlRef = o, !.shown = o].urlRef = o
         /\ [panel EXCEPT !.status = status, !.urlRef = o, !.shown = o].shown = o
BY DEF PanelRecords

\* What is known of a run of FilePreview that is not cancelled.
LEMMA WaitingPanel ==
  ASSUME ViewInv, NEW c \in Calls,
         calls[c].kind \in {"blob", "text"}
  PROVE  /\ panel \in PanelRecords /\ calls[c].object \in MaybeObjects
         /\ liveUrls + 0 = liveUrls
         /\ calls[c].on =>
               panel.urlRef = None /\ panel.shown = None /\ calls[c].object # None
<1>1. /\ ViewTypeOK /\ PropsOK /\ PanelOK
      /\ calls[c] \in RequestRecords
  BY DEF ViewInv, ViewTypeOK
<1>2. PreviewDeps # None => PreviewDeps.object # None
  BY <1>1, PropsGiveDeps, ObjectsAreObjects DEF DepsOK
<1>3. liveUrls \in Int
  BY <1>1 DEF PanelOK
<1> QED BY <1>1, <1>2, <1>3 DEF ViewTypeOK, PanelOK, PreviewWaits, RequestRecords

LEMMA BlobTooLargeKeeps ==
  ASSUME ViewInv, NEW c \in Calls, BlobTooLarge(c)
  PROVE  ViewInv'
<1>1. /\ calls[c].kind \in {"blob", "text"}
      /\ panel' = IF calls[c].on THEN [panel EXCEPT !.status = "too-large"] ELSE panel
      /\ calls' = [calls EXCEPT ![c] = Free]
      /\ UNCHANGED <<props, meta>> /\ UNCHANGED liveUrls
  BY DEF BlobTooLarge, Settle, GoesOn, TooLarge
<1> QED BY <1>1, WaitingPanel, PanelChanges, AnswerKeeps

LEMMA BlobIsMediaKeeps ==
  ASSUME ViewInv, NEW c \in Calls, BlobIsMedia(c)
  PROVE  ViewInv'
<1>1. /\ calls[c].kind \in {"blob", "text"}
      /\ panel' = IF calls[c].on
                  THEN [panel EXCEPT !.status = "ready", !.urlRef = calls[c].object,
                                     !.shown = calls[c].object]
                  ELSE panel
      /\ liveUrls' = IF calls[c].on THEN liveUrls + 1 ELSE liveUrls
      /\ calls' = [calls EXCEPT ![c] = Free]
      /\ UNCHANGED <<props, meta>>
  BY DEF BlobIsMedia, Settle, GoesOn
<1> QED BY <1>1, WaitingPanel, PanelChanges, AnswerKeeps

LEMMA TextReadKeeps ==
  ASSUME ViewInv, NEW c \in Calls, TextRead(c)
  PROVE  ViewInv'
<1>1. /\ calls[c].kind \in {"blob", "text"}
      /\ panel' = IF calls[c].on
                  THEN [panel EXCEPT !.status = "ready", !.shown = calls[c].object]
                  ELSE panel
      /\ calls' = [calls EXCEPT ![c] = Free]
      /\ UNCHANGED <<props, meta>> /\ UNCHANGED liveUrls
  BY DEF TextRead, Settle, GoesOn
<1> QED BY <1>1, WaitingPanel, PanelChanges, AnswerKeeps

LEMMA FetchFailsKeeps ==
  ASSUME ViewInv, NEW c \in Calls, FetchFails(c)
  PROVE  ViewInv'
<1>1. /\ calls[c].kind \in {"blob", "text"}
      /\ panel' = IF calls[c].on THEN [panel EXCEPT !.status = "error"] ELSE panel
      /\ calls' = [calls EXCEPT ![c] = Free]
      /\ UNCHANGED <<props, meta>> /\ UNCHANGED liveUrls
  BY DEF FetchFails, Settle, GoesOn
<1> QED BY <1>1, WaitingPanel, PanelChanges, AnswerKeeps

\* Steps that change the panel in nothing the invariant sees, and take no
\* request of a panel but to free it or to read its bytes.
LEMMA QuietKeeps ==
  ASSUME ViewInv, UNCHANGED props, UNCHANGED <<meta, liveUrls>>,
         panel' \in PanelRecords, panel'.urlRef = panel.urlRef, panel'.shown = panel.shown,
         calls' \in [Calls -> RequestRecords],
         \A c \in Calls :
            /\ PreviewWaits(c)' => PreviewWaits(c) /\ calls'[c].object = calls[c].object
            /\ MetaWaits(c)' => MetaWaits(c) /\ calls'[c].object = calls[c].object
  PROVE  ViewInv'
<1>1. ViewTypeOK /\ PropsOK /\ PanelOK /\ MetaOK
  BY DEF ViewInv, ViewTypeOK
<1>2. /\ PropsOK'
      /\ PreviewDeps' = PreviewDeps
      /\ MetaDeps' = MetaDeps
      /\ moving' = moving
  BY <1>1, PropsKept
<1>3. ViewTypeOK'
  BY <1>1, <1>2 DEF ViewTypeOK
<1>4. PanelOK'
  BY <1>1, <1>2 DEF PanelOK
<1>5. MetaOK'
  BY <1>1, <1>2 DEF MetaOK
<1> QED BY <1>3, <1>4, <1>5 DEF ViewInv

LEMMA BlobIsTextKeeps ==
  ASSUME ViewInv, NEW c \in Calls, BlobIsText(c)
  PROVE  ViewInv'
<1> DEFINE q == IF calls[c].on THEN [calls[c] EXCEPT !.kind = "text"] ELSE Free
<1>1. /\ calls[c].kind = "blob"
      /\ calls' = [calls EXCEPT ![c] = q]
      /\ UNCHANGED props /\ UNCHANGED <<panel, meta, liveUrls>>
  BY DEF BlobIsText, GoesOn
<1>2. /\ calls \in [Calls -> RequestRecords] /\ calls[c] \in RequestRecords
      /\ panel \in PanelRecords
  BY DEF ViewInv, ViewTypeOK
<1>3. /\ q \in RequestRecords
      /\ q.on => calls[c].on /\ q.kind = "text" /\ q.object = calls[c].object
  BY <1>2, RequestOK DEF RequestRecords, Free, MaybeObjects
<1> HIDE DEF q
<1>4. /\ calls' \in [Calls -> RequestRecords] /\ calls'[c] = q
      /\ \A d \in Calls \ {c} : calls'[d] = calls[d]
  BY <1>1, <1>2, <1>3
<1>5. \A d \in Calls :
         /\ PreviewWaits(d)' => PreviewWaits(d) /\ calls'[d].object = calls[d].object
         /\ MetaWaits(d)' => MetaWaits(d) /\ calls'[d].object = calls[d].object
  BY <1>1, <1>3, <1>4 DEF PreviewWaits, MetaWaits
<1> QED BY <1>1, <1>2, <1>4, <1>5, QuietKeeps

LEMMA ToggleKeeps ==
  ASSUME ViewInv, Toggle
  PROVE  ViewInv'
<1>1. /\ panel' = [panel EXCEPT !.view = IF @ = "rendered" THEN "source" ELSE "rendered"]
      /\ UNCHANGED props /\ UNCHANGED <<meta, calls, liveUrls>>
  BY DEF Toggle
<1>2. panel \in PanelRecords /\ calls \in [Calls -> RequestRecords]
  BY DEF ViewInv, ViewTypeOK
<1>3. /\ panel' \in PanelRecords
      /\ panel'.urlRef = panel.urlRef /\ panel'.shown = panel.shown
  BY <1>1, <1>2 DEF PanelRecords
<1> QED BY <1>1, <1>2, <1>3, QuietKeeps DEF PreviewWaits, MetaWaits

LEMMA DownloadKeeps ==
  ASSUME ViewInv, Download
  PROVE  ViewInv'
<1>1. /\ UNCHANGED props /\ UNCHANGED <<panel, meta, liveUrls>>
      /\ PropsOK /\ panel \in PanelRecords /\ calls \in [Calls -> RequestRecords]
  BY DEF Download, ViewInv, ViewTypeOK
<1>2. PICK k \in IF preview # None THEN {preview.key} ELSE DataSource, c \in Calls :
         calls' = [calls EXCEPT ![c] = Request("save", Object(k))]
  BY DEF Download
<1>3. k \in Keys
  BY <1>1, <1>2, PropsGiveDeps DEF DepsOK, PropsOK, DataSource
<1>4. Object(k) \in MaybeObjects
  BY <1>1, <1>3, ObjectsAreObjects DEF MaybeObjects
<1>5. /\ calls' \in [Calls -> RequestRecords] /\ calls'[c].kind = "save"
      /\ \A d \in Calls \ {c} : calls'[d] = calls[d]
  BY <1>1, <1>2, <1>4, RequestOK
<1> QED BY <1>1, <1>5, QuietKeeps DEF PreviewWaits, MetaWaits

LEMMA Freed ==
  ASSUME calls \in [Calls -> RequestRecords], NEW c \in Calls,
         calls' = [calls EXCEPT ![c] = Free]
  PROVE  /\ calls' \in [Calls -> RequestRecords]
         /\ \A d \in Calls :
               /\ PreviewWaits(d)' => PreviewWaits(d) /\ calls'[d] = calls[d]
               /\ MetaWaits(d)' => MetaWaits(d) /\ calls'[d] = calls[d]
<1>1. Free \in RequestRecords /\ Free.kind = "free"
  BY DEF Free, RequestRecords, MaybeObjects
<1>2. /\ calls' \in [Calls -> RequestRecords] /\ calls'[c].kind = "free"
      /\ \A d \in Calls \ {c} : calls'[d] = calls[d]
  BY <1>1
<1> QED BY <1>2 DEF PreviewWaits, MetaWaits

LEMMA SavedKeeps ==
  ASSUME ViewInv, NEW c \in Calls, DownloadEnds(c)
  PROVE  ViewInv'
<1>1. /\ UNCHANGED props /\ UNCHANGED <<panel, meta, liveUrls>>
      /\ calls' = [calls EXCEPT ![c] = Free]
      /\ panel \in PanelRecords /\ calls \in [Calls -> RequestRecords]
  BY DEF DownloadEnds, ViewInv, ViewTypeOK
<1> QED BY <1>1, Freed, QuietKeeps

\* Whatever arrives is shown by a mounted panel; it is of the object the
\* panel is open for.
LEMMA MetaArrivesKeeps ==
  ASSUME ViewInv, NEW c \in Calls, MetaArrives(c)
  PROVE  ViewInv'
<1>1. /\ UNCHANGED props /\ UNCHANGED <<panel, liveUrls>>
      /\ calls' = [calls EXCEPT ![c] = Free]
      /\ calls[c].kind = "meta" /\ ~moving
  BY DEF MetaArrives, Idle
<1>2. PICK o \in {calls[c].object, None} :
         meta' = IF calls[c].on THEN [loading |-> FALSE, shown |-> o] ELSE meta
  BY DEF MetaArrives
<1>3. ViewTypeOK /\ PropsOK /\ PanelOK /\ MetaOK
  BY DEF ViewInv, ViewTypeOK
<1>4. /\ PropsOK'
      /\ PreviewDeps' = PreviewDeps
      /\ MetaDeps' = MetaDeps
      /\ moving' = moving
  BY <1>1, <1>3, PropsKept
<1>5. /\ calls' \in [Calls -> RequestRecords]
      /\ \A d \in Calls :
            /\ PreviewWaits(d)' => PreviewWaits(d) /\ calls'[d] = calls[d]
            /\ MetaWaits(d)' => MetaWaits(d) /\ calls'[d] = calls[d]
  BY <1>1, <1>3, Freed DEF ViewTypeOK
<1>6. o \in MaybeObjects
  BY <1>3 DEF ViewTypeOK, RequestRecords, MaybeObjects
<1>7. meta' \in MetaRecords
  BY <1>2, <1>3, <1>6 DEF ViewTypeOK, MetaRecords
<1>8. calls[c].on => MetaDeps # None /\ calls[c].object = MetaDeps
  BY <1>1, <1>3 DEF MetaOK, MetaWaits
<1>9. /\ MetaDeps = None => meta' = NoMeta
      /\ meta'.shown # None => meta'.shown = MetaDeps \/ (moving /\ meta'.loading)
  <2>1. CASE calls[c].on
    BY <1>2, <1>8, <2>1
  <2>2. CASE ~calls[c].on
    BY <1>2, <1>3, <2>2 DEF MetaOK
  <2> QED BY <2>1, <2>2
<1>10. MetaOK'
  BY <1>3, <1>4, <1>5, <1>9 DEF MetaOK, NoMeta
<1>11. PanelOK'
  BY <1>1, <1>3, <1>4, <1>5 DEF PanelOK
<1> QED BY <1>1, <1>3, <1>4, <1>5, <1>7, <1>10, <1>11 DEF ViewInv, ViewTypeOK

LEMMA ViewInitOK == ViewInit => ViewInv
<1> SUFFICES ASSUME ViewInit
             PROVE  ViewInv
  OBVIOUS
<1>1. PropsOK
  BY DEF ViewInit, PropsOK
<1>2. /\ NoPanel \in PanelRecords
      /\ NoPanel.urlRef = None /\ NoPanel.shown = None
      /\ NoMeta \in MetaRecords /\ NoMeta.shown = None
      /\ Free \in RequestRecords /\ Free.kind = "free"
  BY DEF NoPanel, PanelRecords, NoMeta, MetaRecords, Free, RequestRecords,
         MaybeObjects
<1>3. ViewTypeOK
  BY <1>1, <1>2 DEF ViewInit, ViewTypeOK
<1>4. \A c \in Calls : ~PreviewWaits(c) /\ ~MetaWaits(c)
  BY <1>2 DEF ViewInit, PreviewWaits, MetaWaits
<1>5. PanelOK
  BY <1>2, <1>4 DEF ViewInit, PanelOK
<1>6. MetaOK
  BY <1>2, <1>4 DEF ViewInit, MetaOK
<1> QED BY <1>3, <1>5, <1>6 DEF ViewInv

LEMMA ViewStep ==
  ASSUME ViewInv, [ViewNext]_viewVars
  PROVE  ViewInv'
<1>1. CASE \/ OpenPreview \/ ClosePreview \/ OpenMeta \/ CloseMeta
           \/ Search \/ MoveBucket \/ Fetch \/ LoadMore \/ Listed
           \/ Toggle \/ Download
  BY <1>1, OpenPreviewKeeps, ClosePreviewKeeps, OpenMetaKeeps, CloseMetaKeeps, SearchKeeps,
     MoveBucketKeeps, FetchKeeps, LoadMoreKeeps, ListedKeeps, ToggleKeeps, DownloadKeeps
<1>2. ASSUME NEW c \in Calls,
             \/ BlobTooLarge(c) \/ BlobIsText(c) \/ BlobIsMedia(c)
             \/ TextRead(c) \/ FetchFails(c) \/ MetaArrives(c)
             \/ DownloadEnds(c)
      PROVE  ViewInv'
  BY <1>2, BlobTooLargeKeeps, BlobIsTextKeeps, BlobIsMediaKeeps, TextReadKeeps,
     FetchFailsKeeps, MetaArrivesKeeps, SavedKeeps
<1>3. CASE UNCHANGED viewVars
  <2>1. UNCHANGED props /\ UNCHANGED <<panel, meta, calls, liveUrls>>
    BY <1>3 DEF viewVars
  <2>2. panel \in PanelRecords /\ calls \in [Calls -> RequestRecords]
    BY DEF ViewInv, ViewTypeOK
  <2> QED BY <2>1, <2>2, QuietKeeps DEF PreviewWaits, MetaWaits
<1> QED BY <1>1, <1>2, <1>3 DEF ViewNext

LEMMA ViewInvAlways == ViewSpec => []ViewInv
<1>1. ViewInit => ViewInv
  BY ViewInitOK
<1>2. ViewInv /\ [ViewNext]_viewVars => ViewInv'
  BY ViewStep
<1> QED BY <1>1, <1>2, PTL DEF ViewSpec

\* However late the answers of FilePreview arrive and however often the table
\* is taken off the screen, one object URL at most is alive, the one shown.
THEOREM UrlsAccountedAlways == ViewSpec => []UrlsAccounted
<1>1. ViewInv => UrlsAccounted
  BY DEF ViewInv, PanelOK, UrlsAccounted
<1> QED BY <1>1, ViewInvAlways, PTL

\* Neither panel ever shows an object other than the one it is open for, in
\* the bucket of now.
THEOREM PanelsShowTheirObjectAlways == ViewSpec => []PanelsShowTheirObject
<1>1. ViewInv => PanelsShowTheirObject
  BY DEF ViewInv, PanelOK, MetaOK, PanelsShowTheirObject
<1> QED BY <1>1, ViewInvAlways, PTL

----------------------------------------------------------------------------
(* Tables.                                                                 *)

LEMMA BodiesAreTables ==
  ASSUME NEW b \in Bodies
  PROVE  /\ b.table \in Seq(RowsOver(Chars))
         /\ b.style.break \in Breaks /\ b.style.ended \in BOOLEAN
<1>1. b \in [table : Tables, style : Styles]
  BY ViewAssumption
<1>2. b.table \in Tables /\ b.style \in Styles
  BY <1>1
<1> QED BY <1>2 DEF Tables, RowsOver, Styles

\* The beginning of a sequence.
LEMMA BeginningIs ==
  ASSUME NEW S, NEW t \in Seq(S), NEW n \in Nat
  PROVE  /\ Cut(t, n) \in Seq(S)
         /\ Len(Cut(t, n)) = Least(Len(t), n)
         /\ \A i \in 1..Len(Cut(t, n)) : Cut(t, n)[i] = t[i]
<1> DEFINE m == Least(Len(t), n)
<1>1. m \in Nat /\ m <= Len(t)
  BY DEF Least
<1>2. \A i \in 1..m : t[i] \in S
  BY <1>1, ElementOfSeq
<1> HIDE DEF m
<1>3. /\ SubSeq(t, 1, m) \in Seq(S)
      /\ Len(SubSeq(t, 1, m)) = IF 1 <= m THEN m - 1 + 1 ELSE 0
      /\ \A i \in 1..(m - 1 + 1) : SubSeq(t, 1, m)[i] = t[1 + i - 1]
  BY <1>1, <1>2, SubSeqProperties
<1>4. Cut(t, n) = SubSeq(t, 1, m)
  BY DEF Cut, m
<1>5. Len(Cut(t, n)) = m
  BY <1>1, <1>3, <1>4
<1> QED BY <1>1, <1>3, <1>4, <1>5 DEF m

\* The rows of a body that the parser gives back are rows of it.
LEMMA RowsAreRows ==
  ASSUME NEW S, NEW table \in Seq(S), NEW style
  PROVE  Rows(table, style) \in Seq(S)
<1>1. CASE table = <<>>
  BY <1>1 DEF Rows
<1>2. CASE table # <<>>
  <2>1. Len(table) - 1 \in Nat /\ Len(table) - 1 <= Len(table)
    BY <1>2
  <2>2. SubSeq(table, 1, Len(table) - 1) \in Seq(S)
    BY <2>1, SubSeqProperties, ElementOfSeq
  <2> QED BY <2>2 DEF Rows
<1> QED BY <1>1, <1>2

\* What renderCsv makes of rows the parser cut at its caps.
LEMMA ScreenOfShown ==
  ASSUME NEW C, NEW written \in Seq(RowsOver(C)), NEW text, NEW d,
         parseCsv(text, d) = Shown(written)
  PROVE  ShowsTable(renderCsv(text, d), written)
<1> DEFINE narrow == [i \in 1..Len(written) |-> Cut(written[i], MaxCols)]
           table == Cut(narrow, MaxRows)
           columns == IF table = <<>> THEN 0 ELSE Len(table[1])
           screen == [i \in 1..Len(table) |-> Cut(table[i], columns)]
<1>1. MaxRows \in Nat \ {0} /\ MaxCols \in Nat \ {0}
  BY CsvAssumption
<1>2. \A i \in 1..Len(written) :
         /\ written[i] \in Seq(Seq(C)) /\ Len(written[i]) \in Nat
         /\ narrow[i] \in Seq(Seq(C))
         /\ Len(narrow[i]) = Least(Len(written[i]), MaxCols)
         /\ \A j \in 1..Len(narrow[i]) : narrow[i][j] = written[i][j]
  <2> SUFFICES ASSUME NEW i \in 1..Len(written)
               PROVE  /\ written[i] \in Seq(Seq(C)) /\ Len(written[i]) \in Nat
                      /\ Cut(written[i], MaxCols) \in Seq(Seq(C))
                      /\ Len(Cut(written[i], MaxCols)) = Least(Len(written[i]), MaxCols)
                      /\ \A j \in 1..Len(Cut(written[i], MaxCols)) :
                            Cut(written[i], MaxCols)[j] = written[i][j]
    OBVIOUS
  <2>1. written[i] \in Seq(Seq(C))
    BY ElementOfSeq DEF RowsOver
  <2>2. Len(written[i]) \in Nat
    BY <2>1
  <2>3. MaxCols \in Nat
    BY <1>1
  <2> HIDE DEF narrow, table, columns, screen
  <2> QED BY <2>1, <2>2, <2>3, BeginningIs
<1>3. narrow \in Seq(Seq(Seq(C))) /\ Len(narrow) = Len(written)
  <2> HIDE DEF narrow
  <2>1. narrow = [i \in 1..Len(written) |-> narrow[i]]
    BY DEF narrow
  <2> QED BY <1>2, <2>1
<1>4. /\ table \in Seq(Seq(Seq(C)))
      /\ Len(table) = Least(Len(written), MaxRows)
      /\ \A i \in 1..Len(table) : table[i] = narrow[i]
  <2> HIDE DEF narrow
  <2> QED BY <1>1, <1>3, BeginningIs
<1>5. Len(written) \in Nat /\ Len(table) \in Nat /\ Len(table) <= Len(written)
  BY <1>1, <1>4 DEF Least
<1> HIDE DEF narrow, table
<1>6. \A i \in 1..Len(table) :
         /\ i \in 1..Len(written) /\ 1 \in 1..Len(written)
         /\ columns = Least(Len(written[1]), MaxCols)
         /\ table[i] = narrow[i]
  <2> SUFFICES ASSUME NEW i \in 1..Len(table)
               PROVE  /\ i \in 1..Len(written) /\ 1 \in 1..Len(written)
                      /\ columns = Least(Len(written[1]), MaxCols)
                      /\ table[i] = narrow[i]
    OBVIOUS
  <2>1. i \in 1..Len(written) /\ 1 \in 1..Len(written) /\ 1 \in 1..Len(table)
    BY <1>5
  <2>2. table # <<>>
    BY <2>1
  <2> QED BY <1>2, <1>4, <2>1, <2>2
<1> HIDE DEF columns
<1>7. ASSUME NEW i \in 1..Len(table)
      PROVE  /\ Len(screen[i]) = Least(Len(written[i]), Least(Len(written[1]), MaxCols))
             /\ \A j \in 1..Len(screen[i]) : screen[i][j] = written[i][j]
  <2>1. /\ i \in 1..Len(written) /\ 1 \in 1..Len(written)
        /\ columns = Least(Len(written[1]), MaxCols)
        /\ table[i] = narrow[i]
    BY <1>6
  <2>2. /\ narrow[i] \in Seq(Seq(C))
        /\ Len(written[i]) \in Nat /\ Len(written[1]) \in Nat
        /\ Len(narrow[i]) = Least(Len(written[i]), MaxCols)
        /\ \A j \in 1..Len(narrow[i]) : narrow[i][j] = written[i][j]
    BY <1>2, <2>1
  <2>3. columns \in Nat
    BY <1>1, <2>1, <2>2 DEF Least
  <2>4. screen[i] = Cut(narrow[i], columns)
    BY <2>1
  <2>5. /\ Len(screen[i]) = Least(Len(narrow[i]), columns)
        /\ \A j \in 1..Len(screen[i]) : screen[i][j] = narrow[i][j]
    BY <2>2, <2>3, <2>4, BeginningIs
  <2>6. Len(screen[i]) = Least(Len(written[i]), Least(Len(written[1]), MaxCols))
    BY <1>1, <2>1, <2>2, <2>5 DEF Least
  <2>7. \A j \in 1..Len(screen[i]) : j \in 1..Len(narrow[i])
    BY <2>2, <2>3, <2>5, <1>1 DEF Least
  <2> HIDE DEF screen
  <2> QED BY <2>2, <2>5, <2>6, <2>7
<1> DEFINE cut == \/ Len(written) > MaxRows
                  \/ \E i \in 1..Len(written) : Len(written[i]) > MaxCols
<1>8. Shown(written) = [rows |-> table, truncated |-> cut]
  BY DEF Shown, table, narrow
<1>9. renderCsv(text, d) = [rows |-> screen, notice |-> cut]
  <2> HIDE DEF cut
  <2> QED BY <1>8 DEF renderCsv, columns
<1>10. renderCsv(text, d).rows = screen /\ renderCsv(text, d).notice = cut
  <2> HIDE DEF cut, screen
  <2> QED BY <1>9
<1>11. Len(screen) = Len(table)
  BY <1>5
<1> HIDE DEF screen
<1> QED BY <1>4, <1>7, <1>10, <1>11 DEF ShowsTable

\* Whatever is written in a file, its table on screen is that one: no row or
\* field is lost, split or invented but beyond the caps, where the notice
\* says so, or where the header has no column.
THEOREM TablesShownAsWrittenAlways == ViewSpec => []TablesShownAsWritten
<1>1. TablesShownAsWritten
  <2>1. ASSUME NEW d, d \in Chars, Delimits(d), NEW b \in Bodies
        PROVE  ShowsTable(renderCsv(Write(b.table, b.style, d), d), Rows(b.table, b.style))
    <3>1. {"quote", "lf", "cr"} \subseteq Chars
      BY CsvAssumption
    <3>2. parseCsv(Write(b.table, b.style, d), d) = Shown(Rows(b.table, b.style))
      BY <2>1, <3>1, BodiesAreTables, TableParses
    <3>3. Rows(b.table, b.style) \in Seq(RowsOver(Chars))
      BY BodiesAreTables, RowsAreRows
    <3> QED BY <3>2, <3>3, ScreenOfShown
  <2>2. \A d \in {"tab", "comma"} : d \in Chars /\ Delimits(d)
    BY ViewAssumption DEF Delimits
  <2>3. \A d \in {"tab", "comma"} : d \in FaithfulDelimiters
    BY <2>1, <2>2 DEF FaithfulDelimiters
  <2> QED BY <2>3 DEF TablesShownAsWritten, delimiterFor
<1> QED BY <1>1, PTL

============================================================================
