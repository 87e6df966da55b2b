---------------------------- MODULE ReaderProofs ----------------------------
(* Proofs about the parts of the story automator that read and rewrite      *)
(* text: the skill layout, the presets, the state document, the story keys, *)
(* the verdicts on a step and the epic file.  Where such a part walks a     *)
(* sequence, its model is a function of the position or a set of positions; *)
(* the lemmas at the top give induction over positions with a set in the    *)
(* place of the predicate, and the rest is first-order.                     *)
EXTENDS SkillLayout, AgentPresets, StateDoc, StoryKeys, StepVerdict, EpicBook,
        SequenceTheorems, FiniteSetTheorems, WellFoundedInduction, TLAPS

-----------------------------------------------------------------------------
(* Induction over positions                                                 *)

(* A nonempty set of natural numbers has a least element.                   *)
LEMMA LeastNat ==
    ASSUME NEW T, T \subseteq Nat, T # {}
    PROVE  \E x \in T : \A y \in T : x <= y
<1> DEFINE R == {ss \in Nat \X Nat : ss[1] < ss[2]}
<1>1. IsWellFoundedOn(R, Nat)
  BY NatLessThanWellFounded DEF OpToRel
<1>2. \E x \in T : \A y \in T : ~(<<y, x>> \in R)
  BY <1>1, WFMin
<1>3. \A x, y \in T : <<y, x>> \notin R => x <= y
  OBVIOUS
<1>4. QED
  BY <1>2, <1>3

(* Induction over the natural numbers up to a bound, with a set in the      *)
(* place of the predicate.                                                  *)
LEMMA Induct ==
    ASSUME NEW n \in Nat, NEW S, 0 \in S, \A i \in 1 .. n : i - 1 \in S => i \in S
    PROVE  0 .. n \subseteq S
<1> SUFFICES ASSUME (0 .. n) \ S # {} PROVE FALSE
  OBVIOUS
<1>1. PICK x \in (0 .. n) \ S : \A y \in (0 .. n) \ S : x <= y
  BY LeastNat, (0 .. n) \ S \subseteq Nat
<1>2. x \in 1 .. n /\ x - 1 \in 0 .. n
  BY <1>1
<1>3. x - 1 \in S
  BY <1>1, <1>2
<1>4. QED
  BY <1>1, <1>2, <1>3

(* A nonempty set of numbers with an upper bound has a greatest element.    *)
LEMMA GreatestNat ==
    ASSUME NEW n \in Nat, NEW T, T \subseteq 1 .. n, T # {}
    PROVE  \E x \in T : \A y \in T : y <= x
<1> DEFINE U == {n - x : x \in T}
<1>1. U \subseteq Nat /\ U # {}
  <2>1. \A x \in T : n - x \in Nat
    OBVIOUS
  <2>2. QED
    BY <2>1
<1>2. PICK u \in U : \A v \in U : u <= v
  BY <1>1, LeastNat
<1>3. PICK x \in T : u = n - x
  BY <1>2
<1>4. ASSUME NEW y \in T PROVE y <= x
  <2>1. u <= n - y
    <3>1. n - y \in U
      OBVIOUS
    <3>2. QED
      BY <1>2, <3>1
  <2>2. x \in 1 .. n /\ y \in 1 .. n
    OBVIOUS
  <2>3. QED
    BY <1>3, <2>1, <2>2
<1>5. QED
  BY <1>3, <1>4

\* f begins with x0, and g leads from each of its values to the next.
Steps(f, n, x0, g) == f[0] = x0 /\ \A i \in 1 .. n : f[i] = g[<<i, f[i - 1]>>]

(* A function over 0 .. n is defined by its first value and by the step     *)
(* that leads from one value to the next.                                   *)
LEMMA Recursion ==
    ASSUME NEW X, NEW n \in Nat, NEW x0 \in X, NEW g \in [(1 .. n) \X X -> X]
    PROVE  \E f \in [0 .. n -> X] : Steps(f, n, x0, g)
<1> DEFINE Upto(m, f) == f \in [0 .. n -> X] /\ f[0] = x0
                           /\ \A i \in 1 .. m : f[i] = g[<<i, f[i - 1]>>]
           S == {m \in 0 .. n : \E f \in [0 .. n -> X] : Upto(m, f)}
<1>1. 0 \in S
  <2> DEFINE f0 == [i \in 0 .. n |-> x0]
  <2>1. f0 \in [0 .. n -> X] /\ f0[0] = x0 /\ 1 .. 0 = {} /\ 0 \in 0 .. n
    OBVIOUS
  <2>2. Upto(0, f0)
    BY <2>1
  <2>3. QED
    BY <2>1, <2>2
<1>2. ASSUME NEW m \in 1 .. n, m - 1 \in S PROVE m \in S
  <2>1. PICK f \in [0 .. n -> X] : Upto(m - 1, f)
    BY <1>2
  <2> DEFINE h == [f EXCEPT ![m] = g[<<m, f[m - 1]>>]]
  <2>2. f[m - 1] \in X /\ <<m, f[m - 1]>> \in (1 .. n) \X X
    <3>1. m - 1 \in 0 .. n
      OBVIOUS
    <3>2. QED
      BY <3>1
  <2>3. h \in [0 .. n -> X] /\ h[0] = x0
    BY <2>1, <2>2
  <2>4. ASSUME NEW i \in 1 .. m PROVE h[i] = g[<<i, h[i - 1]>>]
    <3>1. h[i - 1] = f[i - 1]
      <4>1. i - 1 \in 0 .. n /\ i - 1 # m
        OBVIOUS
      <4>2. QED
        BY <2>1, <4>1
    <3>2. CASE i = m
      <4>1. m \in 0 .. n
        OBVIOUS
      <4>2. h[m] = g[<<m, f[m - 1]>>]
        BY <2>1, <4>1
      <4>3. QED
        BY <3>1, <3>2, <4>2
    <3>3. CASE i # m
      <4>1. i \in 1 .. m - 1 /\ i \in 0 .. n
        BY <3>3
      <4>3. h[i] = f[i]
        BY <2>1, <3>3, <4>1
      <4>2. QED
        BY <2>1, <3>1, <4>1, <4>3
    <3>4. QED
      BY <3>2, <3>3
  <2>5. Upto(m, h)
    BY <2>3, <2>4
  <2>6. m \in 0 .. n
    OBVIOUS
  <2> HIDE DEF Upto, h
  <2>7. QED
    BY <2>3, <2>5, <2>6
<1>3. n \in S
  <2> HIDE DEF S
  <2>1. 0 .. n \subseteq S
    BY <1>1, <1>2, Induct
  <2>2. QED
    BY <2>1
<1>4. PICK f \in [0 .. n -> X] : Upto(n, f)
  BY <1>3
<1>5. QED
  BY <1>4 DEF Steps

-----------------------------------------------------------------------------
(* Skill layout                                                             *)

\* A command that runs from an installed copy is present where it runs.
LayoutTypes ==
    /\ layout \in Layouts /\ installed \subseteq Roots
    /\ layout.current # "" => layout.current \in installed

LayoutInv == LayoutTypes /\ OneMarkerPlace

(* A sequence that is put behind one element starts with it.                *)
LEMMA FirstOfConcat ==
    ASSUME NEW S, NEW x \in S, NEW s \in Seq(S)
    PROVE  LET c == <<x>> \o s IN c \in Seq(S) /\ 1 \in DOMAIN c /\ c[1] = x
<1>1. <<x>> \in Seq(S) /\ Len(<<x>>) = 1 /\ <<x>>[1] = x
  OBVIOUS
<1>2. QED
  BY <1>1, ConcatProperties

FirstRoot == IF layout.explicit # "" THEN layout.explicit ELSE layout.current

(* For a command that runs from an installed copy the first candidate is    *)
(* already a hit, so nothing that is installed or removed changes the root. *)
LEMMA RootIsFixed ==
    LayoutTypes /\ layout.current \in Roots => ResolveSkillsRoot = FirstRoot
<1> SUFFICES ASSUME LayoutTypes, layout.current \in Roots PROVE ResolveSkillsRoot = FirstRoot
  OBVIOUS
<1> DEFINE roots == CandidateSkillsRoots
           hits  == {i \in DOMAIN roots : roots[i] \in installed \/ roots[i] = layout.explicit}
<1>1. /\ layout.explicit \in Roots \/ layout.explicit = ""
      /\ layout.current \in installed /\ SearchOrder \in Seq(Roots)
      /\ "" \notin Roots
  BY LayoutAssumption DEF LayoutTypes, Layouts
<1>2. roots \in Seq(Roots) /\ 1 \in DOMAIN roots /\ roots[1] = FirstRoot
  <2> DEFINE current == <<layout.current>>
             explicit == <<layout.explicit>>
  <2>1. Named(layout.current) = current /\ current \in Seq(Roots)
    <3>1. Named(layout.current) = current
      BY <1>1, Zenon DEF Named
    <3>2. current \in Seq(Roots)
      OBVIOUS
    <3>3. QED
      BY <3>1, <3>2
  <2>5. current \o SearchOrder \in Seq(Roots)
    <3> HIDE DEF current
    <3>1. QED
      BY <1>1, <2>1, ConcatProperties
  <2>2. CASE layout.explicit = ""
    <3>1. Named(layout.explicit) = <<>>
      BY <2>2, Zenon DEF Named
    <3>2. <<>> \o current = current
      BY <2>1, ConcatEmptySeq, Zenon
    <3>3. roots = current \o SearchOrder
      BY <2>1, <3>1, <3>2, Zenon DEF CandidateSkillsRoots
    <3>4. FirstRoot = layout.current
      BY <2>2 DEF FirstRoot
    <3>5. SearchOrder \in Seq(Roots)
      BY <1>1
    <3>6. QED
      BY <3>3, <3>4, <3>5, FirstOfConcat
  <2>3. CASE layout.explicit \in Roots
    <3>1. Named(layout.explicit) = explicit
      BY <1>1, <2>3, Zenon DEF Named
    <3>3. explicit \in Seq(Roots)
      BY <2>3
    <3>4. (explicit \o current) \o SearchOrder = explicit \o (current \o SearchOrder)
      <4>1. SearchOrder \in Seq(Roots)
        BY <1>1
      <4> HIDE DEF explicit, current
      <4>2. QED
        BY <2>1, <3>3, <4>1, ConcatAssociative
    <3>5. roots = explicit \o (current \o SearchOrder)
      BY <2>1, <3>1, <3>4, Zenon DEF CandidateSkillsRoots
    <3>6. FirstRoot = layout.explicit
      BY <1>1, <2>3 DEF FirstRoot
    <3>7. QED
      BY <2>3, <2>5, <3>5, <3>6, FirstOfConcat, Zenon
  <2>4. QED
    BY <1>1, <2>2, <2>3
<1>3. DOMAIN roots = 1 .. Len(roots) /\ Len(roots) \in Nat
  BY <1>2, LenProperties
<1> HIDE DEF roots
<1>4. 1 \in hits /\ \A j \in hits : j \in Nat /\ 1 <= j
  <2>1. FirstRoot \in installed \/ FirstRoot = layout.explicit
    BY <1>1 DEF FirstRoot
  <2>2. 1 \in hits
    BY <1>2, <2>1
  <2>3. \A j \in hits : j \in 1 .. Len(roots)
    BY <1>3
  <2> HIDE DEF hits
  <2>4. QED
    BY <1>3, <2>2, <2>3
<1> DEFINE first == CHOOSE i \in hits : \A j \in hits : i <= j
<1> HIDE DEF hits
<1>5. first \in hits /\ \A j \in hits : first <= j
  BY <1>4
<1>6. first = 1
  BY <1>4, <1>5
<1>7. ResolveSkillsRoot = roots[first]
  BY <1>4 DEF ResolveSkillsRoot, roots, hits
<1>8. QED
  BY <1>2, <1>6, <1>7

(* So the place of the marker depends on the environment alone.             *)
LEMMA MarkerIsFixed ==
    ASSUME LayoutTypes, LayoutTypes', layout' = layout, layout.current \in Roots
    PROVE  ActiveMarkerPath' = ActiveMarkerPath
<1>1. ProviderOf[layout.current] # "" /\ "" \notin Roots
  BY LayoutAssumption DEF LayoutTypes, Layouts
<1>2. ResolveSkillsRoot = FirstRoot
  BY RootIsFixed
<1>3. ResolveSkillsRoot' = FirstRoot'
  <2>1. (LayoutTypes /\ layout.current \in Roots => ResolveSkillsRoot = FirstRoot)'
    BY RootIsFixed, PTL
  <2>2. QED
    BY <2>1
<1>4. RuntimeProvider' = RuntimeProvider
  BY <1>1 DEF RuntimeProvider
<1>5. FirstRoot' = FirstRoot /\ FirstRoot \in {layout.explicit, layout.current}
  BY DEF FirstRoot
<1>6. QED
  BY <1>2, <1>3, <1>4, <1>5 DEF ActiveMarkerPath

(* All commands of one environment choose the same agent, and build-cmd     *)
(* starts that agent's program.                                             *)
LEMMA CommandsAgree ==
    LayoutTypes => AgentsAgree
<1> SUFFICES ASSUME LayoutTypes PROVE AgentsAgree
  OBVIOUS
<1>1. SUFFICES ASSUME NEW agent \in {"", "claude", "codex", "auto"},
                      NEW command \in {"", "claude", "codex", "other"},
                      NEW flag \in {"none", "claude", "codex", "auto"}
               PROVE  /\ SpawnAgent(agent, command, flag) = MonitorAgent(agent, command, flag)
                      /\ SpawnAgent(agent, command, flag) = BuildAgent(agent, command, flag)
                      /\ flag = "none" =>
                           BuildProgram(agent, command, flag) \in
                             {"other", MonitorAgent(agent, command, flag)}
  BY DEF AgentsAgree
<1>2. SpawnAgent(agent, command, flag) = MonitorAgent(agent, command, flag)
  BY DEF SpawnAgent, MonitorAgent
<1>3. SpawnAgent(agent, command, flag) = BuildAgent(agent, command, flag)
  BY DEF SpawnAgent, BuildAgent
<1>4. ASSUME flag = "none"
      PROVE  BuildProgram(agent, command, flag) \in {"other", MonitorAgent(agent, command, flag)}
  <2>1. CASE command \in {"claude", "codex"} /\ agent = ""
    BY <1>4, <2>1 DEF BuildProgram, MonitorAgent, RawAgentSelection, InferAgent, ResolveAgentSelection
  <2>2. CASE command = "other" /\ agent = ""
    BY <1>4, <2>2 DEF BuildProgram
  <2>3. CASE command = "" \/ agent # ""
    BY <1>2, <1>3, <1>4, <2>3 DEF BuildProgram
  <2>4. QED
    BY <2>1, <2>2, <2>3
<1>5. QED
  BY <1>2, <1>3, <1>4

(* No step that keeps the environment leaves a marker at another place.     *)
LEMMA PlaceKept ==
    ASSUME LayoutInv, LayoutTypes', layout' = layout,
           markers' \subseteq markers \cup {ActiveMarkerPath}
    PROVE  LayoutInv'
<1>1. layout.current = "" \/ layout.current \in Roots
  BY DEF LayoutInv, LayoutTypes, Layouts
<1>2. CASE layout.current = ""
  BY <1>2 DEF LayoutInv, OneMarkerPlace
<1>3. CASE layout.current \in Roots
  <2>1. layout.current # ""
    BY <1>3, LayoutAssumption, Zenon
  <2>2. ActiveMarkerPath' = ActiveMarkerPath
    BY <1>3, MarkerIsFixed DEF LayoutInv
  <2>3. markers' \subseteq {ActiveMarkerPath'}
    BY <2>1, <2>2, Zenon DEF LayoutInv, OneMarkerPlace
  <2>4. QED
    BY <2>3 DEF LayoutInv, OneMarkerPlace
<1>4. QED
  BY <1>1, <1>2, <1>3

(* Commands that run from an installed copy find the marker where it was    *)
(* created, whatever is installed or removed, and mean the same agent.      *)
THEOREM LayoutCorrect == LayoutSpec => []LayoutAgrees
<1>1. LayoutInit => LayoutInv
  BY DEF LayoutInit, LayoutInv, LayoutTypes, OneMarkerPlace
<1>2. LayoutInv /\ [LayoutNext]_layoutVars => LayoutInv'
  <2> SUFFICES ASSUME LayoutInv, [LayoutNext]_layoutVars PROVE LayoutInv'
    OBVIOUS
  <2>1. CASE UNCHANGED layoutVars
    <3>1. LayoutTypes' /\ layout' = layout /\ markers' = markers
      BY <2>1 DEF layoutVars, LayoutInv, LayoutTypes
    <3>2. QED
      BY <3>1, PlaceKept
  <2>2. ASSUME NEW r \in Roots, InstallSkill(r) PROVE LayoutInv'
    <3>1. LayoutTypes' /\ layout' = layout /\ markers' = markers
      BY <2>2 DEF InstallSkill, LayoutInv, LayoutTypes
    <3>2. QED
      BY <3>1, PlaceKept
  <2>3. CASE CreateMarker \/ RemoveMarker
    <3>1. LayoutTypes' /\ layout' = layout
      BY <2>3 DEF CreateMarker, RemoveMarker, LayoutInv, LayoutTypes
    <3>2. markers' \subseteq markers \cup {ActiveMarkerPath}
      BY <2>3 DEF CreateMarker, RemoveMarker
    <3>3. QED
      BY <3>1, <3>2, PlaceKept
  <2>4. QED
    BY <2>1, <2>2, <2>3 DEF LayoutNext
<1>3. LayoutInv => LayoutAgrees
  BY CommandsAgree DEF LayoutInv, LayoutAgrees
<1>4. QED
  BY <1>1, <1>2, <1>3, PTL DEF LayoutSpec

-----------------------------------------------------------------------------
(* Presets                                                                  *)

Preset == [name : PresetNames, config : Settings]
NamesDistinct(list) ==
    \A i, j \in DOMAIN list : SameName(list[i], list[j].name) => i = j

(* The first preset of a name is the only one, so load finds it.            *)
LEMMA LoadedAt ==
    ASSUME NEW list \in Seq(Preset), NamesDistinct(list), NEW n, NEW k \in DOMAIN list,
           SameName(list[k], n)
    PROVE  LoadedPreset(list, n) = list[k].config
<1> DEFINE hits == {i \in DOMAIN list : SameName(list[i], n)}
           first == CHOOSE i \in hits : \A j \in hits : i <= j
<1>1. DOMAIN list \subseteq Nat
  BY LenProperties
<1>2. hits = {k}
  BY DEF SameName, NamesDistinct
<1>3. k <= k
  BY <1>1
<1>4. first = k
  <2> HIDE DEF hits
  <2>1. \E i \in hits : \A j \in hits : i <= j
    BY <1>2, <1>3
  <2>2. first \in hits
    BY <2>1
  <2>3. QED
    BY <1>2, <2>2
<1>5. LoadedPreset(list, n) = list[first].config
  BY <1>2, Zenon DEF LoadedPreset
<1>6. QED
  BY <1>4, <1>5

(* Without a preset of the name nothing is found.                           *)
LEMMA NotLoaded ==
    ASSUME NEW list, NEW n, \A i \in DOMAIN list : ~SameName(list[i], n)
    PROVE  LoadedPreset(list, n) = "preset_not_found"
<1>1. {i \in DOMAIN list : SameName(list[i], n)} = {}
  OBVIOUS
<1>2. QED
  BY <1>1, Zenon DEF LoadedPreset

(* Two lists that hold the same presets of a name answer load alike.        *)
LEMMA LoadedSame ==
    ASSUME NEW a \in Seq(Preset), NamesDistinct(a), NEW b \in Seq(Preset), NamesDistinct(b), NEW n,
           \A i \in DOMAIN a : SameName(a[i], n) => \E j \in DOMAIN b : b[j] = a[i],
           \A j \in DOMAIN b : SameName(b[j], n) => \E i \in DOMAIN a : a[i] = b[j]
    PROVE  LoadedPreset(b, n) = LoadedPreset(a, n)
<1>1. CASE \E i \in DOMAIN a : SameName(a[i], n)
  <2>1. PICK i \in DOMAIN a : SameName(a[i], n)
    BY <1>1
  <2>2. PICK j \in DOMAIN b : b[j] = a[i]
    BY <2>1
  <2>3. LoadedPreset(a, n) = a[i].config
    BY <2>1, LoadedAt
  <2>4. SameName(b[j], n)
    BY <2>1, <2>2
  <2>5. LoadedPreset(b, n) = b[j].config
    BY <2>4, LoadedAt
  <2>6. QED
    BY <2>2, <2>3, <2>5
<1>2. CASE \A i \in DOMAIN a : ~SameName(a[i], n)
  <2>1. \A j \in DOMAIN b : ~SameName(b[j], n)
    BY <1>2
  <2>2. QED
    BY <1>2, <2>1, NotLoaded, Zenon
<1>3. QED
  BY <1>1, <1>2

(* save changes or adds the preset of its name, and no other.               *)
LEMMA SavedKeeps ==
    ASSUME NEW list \in Seq(Preset), NamesDistinct(list), NEW n \in PresetNames, NEW s \in Settings
    PROVE  /\ Saved(list, n, s) \in Seq(Preset) /\ NamesDistinct(Saved(list, n, s))
           /\ LoadedPreset(Saved(list, n, s), n) = s
           /\ \A m \in PresetNames : Lower[m] # Lower[n] =>
                LoadedPreset(Saved(list, n, s), m) = LoadedPreset(list, m)
<1> DEFINE hits == {i \in DOMAIN list : SameName(list[i], n)}
           new  == Saved(list, n, s)
<1>1. DOMAIN list = 1 .. Len(list) /\ Len(list) \in Nat /\ \A i \in DOMAIN list : list[i] \in Preset
  BY LenProperties, ElementOfSeq
<1>2. CASE hits = {}
  <2> DEFINE p == [name |-> n, config |-> s]
  <2>1. new = Append(list, p)
    BY <1>2, Zenon DEF Saved
  <2>2. p \in Preset /\ p.name = n /\ p.config = s
    BY DEF Preset
  <2> HIDE DEF p, new
  <2>3. /\ new \in Seq(Preset) /\ DOMAIN new = 1 .. Len(list) + 1 /\ new[Len(list) + 1] = p
        /\ \A i \in DOMAIN list : new[i] = list[i]
    BY <1>1, <2>1, <2>2
  <2>4. \A i \in DOMAIN list : ~SameName(list[i], n)
    BY <1>2
  <2>5. NamesDistinct(new)
    <3>1. SUFFICES ASSUME NEW i \in DOMAIN new, NEW j \in DOMAIN new,
                          SameName(new[i], new[j].name), i # j
                   PROVE  FALSE
      BY DEF NamesDistinct
    <3>2. CASE i \in DOMAIN list /\ j \in DOMAIN list
      BY <2>3, <3>1, <3>2 DEF NamesDistinct
    <3>3. CASE i = Len(list) + 1
      <4>1. j \in DOMAIN list
        BY <1>1, <2>3, <3>1, <3>3
      <4>2. QED
        BY <2>2, <2>3, <2>4, <3>1, <3>3, <4>1 DEF SameName
    <3>4. CASE j = Len(list) + 1
      <4>1. i \in DOMAIN list
        BY <1>1, <2>3, <3>1, <3>4
      <4>2. QED
        BY <2>2, <2>3, <2>4, <3>1, <3>4, <4>1 DEF SameName
    <3>5. QED
      BY <1>1, <2>3, <3>2, <3>3, <3>4
  <2>6. LoadedPreset(new, n) = s
    <3>1. Len(list) + 1 \in DOMAIN new /\ SameName(new[Len(list) + 1], n)
      BY <1>1, <2>2, <2>3 DEF SameName
    <3>2. QED
      BY <2>2, <2>3, <2>5, <3>1, LoadedAt
  <2>7. ASSUME NEW m \in PresetNames, Lower[m] # Lower[n]
        PROVE  LoadedPreset(new, m) = LoadedPreset(list, m)
    <3>1. \A i \in DOMAIN list : \E j \in DOMAIN new : new[j] = list[i]
      BY <1>1, <2>3
    <3>2. \A j \in DOMAIN new : SameName(new[j], m) => \E i \in DOMAIN list : list[i] = new[j]
      <4>1. ~SameName(new[Len(list) + 1], m)
        BY <2>2, <2>3, <2>7 DEF SameName
      <4>2. QED
        BY <1>1, <2>3, <4>1
    <3>3. QED
      BY <2>3, <2>5, <3>1, <3>2, LoadedSame
  <2>8. QED
    BY <2>3, <2>5, <2>6, <2>7 DEF new
<1>3. CASE hits # {}
  <2> DEFINE i0 == CHOOSE i \in hits : \A j \in hits : i <= j
  <2>1. i0 \in hits
    <3>1. hits \subseteq Nat
      BY <1>1
    <3> HIDE DEF hits
    <3>2. QED
      BY <1>3, <3>1, LeastNat
  <2>2. new = [list EXCEPT ![i0].config = s]
    BY <1>3, Zenon DEF Saved
  <2>3. i0 \in DOMAIN list /\ SameName(list[i0], n)
    BY <2>1
  <2> HIDE DEF i0, new
  <2> DEFINE p == [list[i0] EXCEPT !.config = s]
  <2>4. p \in Preset /\ p.name = list[i0].name /\ p.config = s
    BY <1>1, <2>3 DEF Preset
  <2>5. new = [list EXCEPT ![i0] = p]
    BY <2>2
  <2> HIDE DEF p
  <2>6. /\ new \in Seq(Preset) /\ DOMAIN new = DOMAIN list /\ new[i0] = p
        /\ \A i \in DOMAIN list : i # i0 => new[i] = list[i]
    BY <1>1, <2>3, <2>4, <2>5, ExceptSeq
  <2>7. \A i \in DOMAIN list : new[i].name = list[i].name
    BY <2>4, <2>6
  <2>8. NamesDistinct(new)
    BY <2>6, <2>7 DEF NamesDistinct, SameName
  <2>9. LoadedPreset(new, n) = s
    <3>1. SameName(new[i0], n)
      BY <2>3, <2>7 DEF SameName
    <3>2. QED
      BY <2>3, <2>4, <2>6, <2>8, <3>1, LoadedAt
  <2>10. ASSUME NEW m \in PresetNames, Lower[m] # Lower[n]
         PROVE  LoadedPreset(new, m) = LoadedPreset(list, m)
    <3>1. ~SameName(list[i0], m) /\ ~SameName(new[i0], m)
      BY <2>3, <2>7, <2>10 DEF SameName
    <3>2. /\ \A i \in DOMAIN list : SameName(list[i], m) => new[i] = list[i]
          /\ \A i \in DOMAIN new : SameName(new[i], m) => list[i] = new[i]
      BY <2>6, <3>1
    <3>3. QED
      BY <2>6, <2>8, <3>2, LoadedSame
  <2>11. QED
    BY <2>6, <2>8, <2>9, <2>10 DEF new
<1>4. QED
  BY <1>2, <1>3

(* delete keeps, in order, what has another name; it only loses the presets *)
(* of its name, so it gets shorter unless there are none.                   *)
LEMMA RemainingKeeps ==
    ASSUME NEW list \in Seq(Preset), NamesDistinct(list), NEW n \in PresetNames
    PROVE  LET left == Remaining(list, n) IN
           /\ left \in Seq(Preset) /\ NamesDistinct(left)
           /\ \A i \in DOMAIN left : ~SameName(left[i], n)
           /\ \A i \in DOMAIN left : \E j \in DOMAIN list : list[j] = left[i]
           /\ \A j \in DOMAIN list : ~SameName(list[j], n) => \E i \in DOMAIN left : left[i] = list[j]
           /\ Len(left) = Len(list) => \A j \in DOMAIN list : ~SameName(list[j], n)
<1> DEFINE len == Len(list)
           none == <<>>
           step(i, k) == IF SameName(list[i], n) THEN k ELSE Append(k, list[i])
           Kept(f) == f = [i \in 0 .. len |->
                             IF i = 0 THEN none
                             ELSE IF SameName(list[i], n) THEN f[i - 1]
                             ELSE Append(f[i - 1], list[i])]
<1>1. len \in Nat /\ DOMAIN list = 1 .. len /\ \A i \in 1 .. len : list[i] \in Preset
  BY LenProperties, ElementOfSeq
<1>0. /\ none \in Seq(Preset) /\ Len(none) = 0 /\ DOMAIN none = {} /\ 1 .. 0 = {}
      /\ NamesDistinct(none)
  BY DEF NamesDistinct
<1> HIDE DEF none
<1>2. \E f : Kept(f)
  <2> DEFINE g == [p \in (1 .. len) \X Seq(Preset) |-> step(p[1], p[2])]
  <2>1. g \in [(1 .. len) \X Seq(Preset) -> Seq(Preset)]
    <3>1. \A p \in (1 .. len) \X Seq(Preset) : step(p[1], p[2]) \in Seq(Preset)
      BY <1>1
    <3> HIDE DEF step
    <3>2. QED
      BY <3>1
  <2> HIDE DEF g
  <2>3. PICK f \in [0 .. len -> Seq(Preset)] : Steps(f, len, none, g)
    BY <1>0, <1>1, <2>1, Recursion
  <2>4. ASSUME NEW i \in 1 .. len PROVE f[i] = step(i, f[i - 1])
    <3>1. i - 1 \in 0 .. len
      BY <1>1
    <3>2. <<i, f[i - 1]>> \in (1 .. len) \X Seq(Preset)
      BY <3>1
    <3>3. g[<<i, f[i - 1]>>] = step(i, f[i - 1])
      BY <3>2 DEF g
    <3>4. QED
      BY <2>3, <3>3 DEF Steps
  <2>5. Kept(f)
    <3>1. f = [i \in 0 .. len |-> f[i]]
      BY <2>3
    <3>2. \A i \in 1 .. len : f[i] = IF SameName(list[i], n) THEN f[i - 1]
                                     ELSE Append(f[i - 1], list[i])
      BY <2>4
    <3>4. \A i \in 0 .. len : i = 0 \/ i \in 1 .. len
      BY <1>1
    <3>5. \A i \in 0 .. len : f[i] = IF i = 0 THEN none
                                     ELSE IF SameName(list[i], n) THEN f[i - 1]
                                     ELSE Append(f[i - 1], list[i])
      BY <2>3, <3>2, <3>4, Zenon DEF Steps
    <3>3. QED
      BY <3>1, <3>5, Zenon
  <2>6. QED
    BY <2>5
<1>3. PICK kept : Kept(kept) /\ Remaining(list, n) = kept[len]
  BY <1>2, Zenon DEF Remaining, none
<1>4. /\ kept[0] = none
      /\ \A i \in 1 .. len : kept[i] = step(i, kept[i - 1])
  <2>1. 0 \in 0 .. len /\ \A i \in 1 .. len : i \in 0 .. len /\ i # 0
    BY <1>1
  <2>2. \A i \in 0 .. len : kept[i] = IF i = 0 THEN none
                                      ELSE IF SameName(list[i], n) THEN kept[i - 1]
                                      ELSE Append(kept[i - 1], list[i])
    BY <1>3, Zenon
  <2>3. QED
    BY <2>1, <2>2, Zenon
<1> HIDE DEF Kept
<1> DEFINE Good(i, k) ==
      /\ k \in Seq(Preset) /\ NamesDistinct(k) /\ Len(k) <= i
      /\ \A x \in DOMAIN k : ~SameName(k[x], n)
      /\ \A x \in DOMAIN k : \E j \in 1 .. i : list[j] = k[x]
      /\ \A j \in 1 .. i : ~SameName(list[j], n) => \E x \in DOMAIN k : k[x] = list[j]
      /\ Len(k) = i => \A j \in 1 .. i : ~SameName(list[j], n)
    S == {i \in 0 .. len : Good(i, kept[i])}
<1>5. 0 \in S
  <2>1. Good(0, none)
    BY <1>0
  <2> HIDE DEF Good
  <2>2. QED
    BY <1>1, <1>4, <2>1
<1>6. ASSUME NEW i \in 1 .. len, i - 1 \in S PROVE i \in S
  <2> DEFINE k == kept[i - 1]
             m == kept[i]
  <2>1. Good(i - 1, k)
    BY <1>6
  <2>2. list[i] \in Preset /\ i \in DOMAIN list /\ 1 .. i = (1 .. i - 1) \cup {i}
        /\ i \in Nat /\ i <= len
    BY <1>1
  <2>3. DOMAIN k = 1 .. Len(k) /\ Len(k) \in Nat
    BY <2>1, LenProperties
  <2> HIDE DEF k, m, Good
  <2>4. CASE SameName(list[i], n)
    <3>1. m = k
      BY <1>4, <2>4 DEF k, m
    <3>2. Good(i, k)
      BY <2>1, <2>2, <2>3, <2>4 DEF Good
    <3>3. QED
      BY <1>1, <3>1, <3>2 DEF m
  <2>5. CASE ~SameName(list[i], n)
    <3>1. m = Append(k, list[i])
      BY <1>4, <2>5 DEF k, m
    <3>2. /\ m \in Seq(Preset) /\ Len(m) = Len(k) + 1 /\ DOMAIN m = 1 .. Len(k) + 1
          /\ m[Len(k) + 1] = list[i] /\ \A x \in 1 .. Len(k) : m[x] = k[x]
      BY <2>1, <2>2, <2>3, <3>1 DEF Good
    <3>3. \A x \in DOMAIN k : ~SameName(k[x], list[i].name) /\ ~SameName(list[i], k[x].name)
      <4>1. SUFFICES ASSUME NEW x \in DOMAIN k,
                            SameName(k[x], list[i].name) \/ SameName(list[i], k[x].name)
                     PROVE  FALSE
        OBVIOUS
      <4>2. PICK j \in 1 .. i - 1 : list[j] = k[x]
        BY <2>1 DEF Good
      <4>3. j \in DOMAIN list /\ j # i
        BY <1>1, <2>2
      <4>4. SameName(list[j], list[i].name)
        BY <4>1, <4>2 DEF SameName
      <4>5. QED
        BY <2>2, <4>3, <4>4 DEF NamesDistinct
    <3>4. NamesDistinct(m)
      <4>1. SUFFICES ASSUME NEW x \in 1 .. Len(k) + 1, NEW y \in 1 .. Len(k) + 1,
                            SameName(m[x], m[y].name), x # y
                     PROVE  FALSE
        BY <3>2 DEF NamesDistinct
      <4>2. CASE x \in DOMAIN k /\ y \in DOMAIN k
        BY <2>1, <2>3, <3>2, <4>1, <4>2 DEF NamesDistinct, Good
      <4>3. CASE x = Len(k) + 1
        <5>1. y \in DOMAIN k
          BY <2>3, <4>1, <4>3
        <5>2. QED
          BY <2>3, <3>2, <3>3, <4>1, <4>3, <5>1
      <4>4. CASE y = Len(k) + 1
        <5>1. x \in DOMAIN k
          BY <2>3, <4>1, <4>4
        <5>2. QED
          BY <2>3, <3>2, <3>3, <4>1, <4>4, <5>1
      <4>5. QED
        BY <2>3, <4>2, <4>3, <4>4
    <3>5. Len(m) <= i /\ (Len(m) = i => Len(k) = i - 1)
      BY <2>1, <2>2, <2>3, <3>2 DEF Good
    <3>6. \A x \in DOMAIN m : ~SameName(m[x], n) /\ \E j \in 1 .. i : list[j] = m[x]
      <4>1. SUFFICES ASSUME NEW x \in 1 .. Len(k) + 1
                     PROVE  ~SameName(m[x], n) /\ \E j \in 1 .. i : list[j] = m[x]
        BY <3>2
      <4>2. CASE x \in DOMAIN k
        BY <2>1, <2>2, <2>3, <3>2, <4>2 DEF Good
      <4>3. CASE x = Len(k) + 1
        BY <2>2, <2>5, <3>2, <4>3
      <4>4. QED
        BY <2>3, <4>2, <4>3
    <3>7. \A j \in 1 .. i : ~SameName(list[j], n) => \E x \in DOMAIN m : m[x] = list[j]
      <4>1. SUFFICES ASSUME NEW j \in 1 .. i, ~SameName(list[j], n)
                     PROVE  \E x \in DOMAIN m : m[x] = list[j]
        OBVIOUS
      <4>2. CASE j = i
        BY <2>3, <3>2, <4>2
      <4>3. CASE j # i
        <5>1. PICK x \in DOMAIN k : k[x] = list[j]
          BY <2>1, <2>2, <4>1, <4>3 DEF Good
        <5>2. QED
          BY <2>3, <3>2, <5>1
      <4>4. QED
        BY <4>2, <4>3
    <3>8. Len(m) = i => \A j \in 1 .. i : ~SameName(list[j], n)
      BY <2>1, <2>2, <2>5, <3>5 DEF Good
    <3>9. Good(i, m)
      BY <3>2, <3>4, <3>5, <3>6, <3>7, <3>8 DEF Good
    <3>10. QED
      BY <1>1, <3>9 DEF m
  <2>6. QED
    BY <2>4, <2>5
<1>7. len \in S
  <2> HIDE DEF S
  <2>1. 0 .. len \subseteq S
    BY <1>1, <1>5, <1>6, Induct
  <2>2. QED
    BY <1>1, <2>1
<1>8. Good(len, kept[len])
  BY <1>7
<1>9. QED
  BY <1>1, <1>3, <1>8

ClientTypes(c) ==
    /\ client[c].pc \in {"idle", "save", "delete"}
    /\ client[c].pc # "idle" =>
         /\ client[c].read \in Seq(Preset) /\ NamesDistinct(client[c].read)
         /\ client[c].name \in PresetNames /\ client[c].config \in Settings

\* The file and every copy a command works on have distinct names: a command
\* writes what it made of its own copy, however old that is.
PresetsInv ==
    /\ presets \in Seq(Preset) /\ NamesDistinct(presets)
    /\ client = [c \in Clients |-> client[c]] /\ \A c \in Clients : ClientTypes(c)

(* A write, of save or delete, leaves distinct names and its own change.    *)
LEMMA PresetWrite ==
    ASSUME PresetsInv, NEW c \in Clients, PresetSave(c) \/ PresetDelete(c)
    PROVE  /\ PresetsInv' /\ client'[c].pc = "idle"
           /\ \A d \in Clients : d # c => client'[d] = client[d]
           /\ client[c].read = presets =>
                /\ \A n \in PresetNames : Lower[n] # Lower[client[c].name] =>
                     LoadedPreset(presets', n) = LoadedPreset(presets, n)
                /\ LoadedPreset(presets', client[c].name) =
                     (IF client[c].pc = "save" THEN client[c].config ELSE "preset_not_found")
<1> DEFINE read == client[c].read
           name == client[c].name
           set  == client[c].config
<1>1. client[c].pc \in {"save", "delete"} /\ client' = [client EXCEPT ![c] = IdleClient]
  BY DEF PresetSave, PresetDelete
<1>2. /\ read \in Seq(Preset) /\ NamesDistinct(read) /\ name \in PresetNames /\ set \in Settings
      /\ presets \in Seq(Preset) /\ NamesDistinct(presets)
  BY <1>1 DEF PresetsInv, ClientTypes
<1>3. /\ client' = [d \in Clients |-> client'[d]] /\ client'[c] = IdleClient
      /\ \A d \in Clients : d # c => client'[d] = client[d]
  BY <1>1 DEF PresetsInv
<1>4. IdleClient.pc = "idle"
  BY DEF IdleClient
<1>5. \A d \in Clients : ClientTypes(d)'
  BY <1>3, <1>4 DEF PresetsInv, ClientTypes
<1> HIDE DEF read, name, set
<1>6. CASE PresetSave(c)
  <2>1. client[c].pc = "save" /\ presets' = Saved(read, name, set)
    BY <1>6 DEF PresetSave, read, name, set
  <2>2. presets' \in Seq(Preset) /\ NamesDistinct(presets')
    BY <1>2, <2>1, SavedKeeps
  <2>3. /\ LoadedPreset(presets', name) = set
        /\ \A n \in PresetNames : Lower[n] # Lower[name] =>
             LoadedPreset(presets', n) = LoadedPreset(read, n)
    BY <1>2, <2>1, SavedKeeps
  <2>4. PresetsInv'
    BY <1>3, <1>5, <2>2 DEF PresetsInv, NamesDistinct, SameName
  <2>5. QED
    BY <1>3, <1>4, <2>1, <2>3, <2>4 DEF read, name, set
<1>7. CASE PresetDelete(c)
  <2> DEFINE left == Remaining(read, name)
  <2>1. /\ client[c].pc = "delete"
        /\ presets' = IF Len(left) = Len(read) THEN presets ELSE left
    BY <1>7 DEF PresetDelete, read, name
  <2>2. /\ left \in Seq(Preset) /\ NamesDistinct(left)
        /\ \A i \in DOMAIN left : ~SameName(left[i], name)
        /\ \A i \in DOMAIN left : \E j \in DOMAIN read : read[j] = left[i]
        /\ \A j \in DOMAIN read : ~SameName(read[j], name) => \E i \in DOMAIN left : left[i] = read[j]
        /\ Len(left) = Len(read) => \A j \in DOMAIN read : ~SameName(read[j], name)
    BY <1>2, RemainingKeeps
  <2> HIDE DEF left
  <2>3. presets' \in Seq(Preset) /\ NamesDistinct(presets')
    BY <1>2, <2>1, <2>2
  <2>4. ASSUME read = presets
        PROVE  /\ LoadedPreset(presets', name) = "preset_not_found"
               /\ \A n \in PresetNames : Lower[n] # Lower[name] =>
                    LoadedPreset(presets', n) = LoadedPreset(presets, n)
    <3>1. CASE Len(left) = Len(read)
      <4>1. presets' = presets /\ \A j \in DOMAIN presets : ~SameName(presets[j], name)
        BY <2>1, <2>2, <2>4, <3>1
      <4>2. LoadedPreset(presets, name) = "preset_not_found"
        BY <4>1, NotLoaded, Zenon
      <4>3. QED
        BY <4>1, <4>2
    <3>2. CASE Len(left) # Len(read)
      <4>1. presets' = left
        BY <2>1, <3>2
      <4>2. LoadedPreset(left, name) = "preset_not_found"
        BY <2>2, NotLoaded, Zenon
      <4>3. ASSUME NEW n \in PresetNames, Lower[n] # Lower[name]
            PROVE  LoadedPreset(left, n) = LoadedPreset(read, n)
        <5>1. \A i \in DOMAIN read : SameName(read[i], n) => ~SameName(read[i], name)
          BY <4>3 DEF SameName
        <5>2. \A i \in DOMAIN read : SameName(read[i], n) => \E j \in DOMAIN left : left[j] = read[i]
          BY <2>2, <5>1
        <5>3. \A j \in DOMAIN left : SameName(left[j], n) => \E i \in DOMAIN read : read[i] = left[j]
          BY <2>2
        <5>4. QED
          BY <1>2, <2>2, <5>2, <5>3, LoadedSame
      <4>4. QED
        BY <2>4, <4>1, <4>2, <4>3
    <3>3. QED
      BY <3>1, <3>2
  <2>5. PresetsInv'
    BY <1>3, <1>5, <2>3 DEF PresetsInv, NamesDistinct, SameName
  <2>6. QED
    BY <1>3, <1>4, <2>1, <2>4, <2>5 DEF read, name, set
<1>8. QED
  BY <1>6, <1>7

(* A load gives its command a copy of the file.                             *)
LEMMA PresetRead ==
    ASSUME PresetsInv, NEW c \in Clients, PresetLoad(c)
    PROVE  PresetsInv' /\ presets' = presets /\ client'[c].pc # "idle"
           /\ \A d \in Clients : d # c => client'[d] = client[d]
<1>1. PICK verb \in {"save", "delete"}, n \in PresetNames, s \in Settings :
        client' = [client EXCEPT ![c] = [pc |-> verb, read |-> presets, name |-> n, config |-> s]]
  BY DEF PresetLoad
<1> DEFINE new == [pc |-> verb, read |-> presets, name |-> n, config |-> s]
<1>2. /\ client' = [d \in Clients |-> client'[d]] /\ client'[c] = new /\ presets' = presets
      /\ \A d \in Clients : d # c => client'[d] = client[d]
  BY <1>1 DEF PresetsInv, PresetLoad
<1>3. /\ new.pc = verb /\ new.read = presets /\ new.name = n /\ new.config = s
  OBVIOUS
<1> HIDE DEF new
<1>4. \A d \in Clients : ClientTypes(d)'
  <2>1. ASSUME NEW d \in Clients PROVE ClientTypes(d)'
    <3>1. CASE d = c
      BY <1>2, <1>3, <3>1 DEF PresetsInv, ClientTypes, NamesDistinct, SameName
    <3>2. CASE d # c
      BY <1>2, <3>2 DEF PresetsInv, ClientTypes, NamesDistinct, SameName
    <3>3. QED
      BY <3>1, <3>2
  <2>2. QED
    BY <2>1
<1>5. QED
  BY <1>2, <1>3, <1>4 DEF PresetsInv, NamesDistinct, SameName

(* Commands that load, change and rewrite the presets file at the same time *)
(* keep its names distinct, and one that nobody else's write came between   *)
(* changes the preset it names and no other.                                *)
THEOREM PresetsCorrect == PresetsSpec => PresetsKept
<1>1. PresetsInit => PresetsInv
  <2> SUFFICES ASSUME PresetsInit PROVE PresetsInv
    OBVIOUS
  <2>1. presets \in Seq(Preset) /\ DOMAIN presets = {}
    BY DEF PresetsInit
  <2>2. client = [c \in Clients |-> client[c]] /\ \A c \in Clients : client[c].pc = "idle"
    BY DEF PresetsInit, IdleClient
  <2>3. QED
    BY <2>1, <2>2 DEF PresetsInv, NamesDistinct, ClientTypes
<1>2. PresetsInv /\ [PresetsNext]_presetVars =>
        PresetsInv' /\ [PresetNamesDistinct' /\ OwnPresetOnly]_presetVars
  <2> SUFFICES ASSUME PresetsInv, [PresetsNext]_presetVars
               PROVE  PresetsInv' /\ [PresetNamesDistinct' /\ OwnPresetOnly]_presetVars
    OBVIOUS
  <2>1. CASE UNCHANGED presetVars
    BY <2>1 DEF presetVars, PresetsInv, ClientTypes, NamesDistinct, SameName
  <2>2. ASSUME NEW c \in Clients, PresetLoad(c)
        PROVE  PresetsInv' /\ PresetNamesDistinct' /\ OwnPresetOnly
    <3>1. /\ PresetsInv' /\ client'[c].pc # "idle"
          /\ \A d \in Clients : d # c => client'[d] = client[d]
      BY <2>2, PresetRead
    <3>2. PresetNamesDistinct'
      BY <3>1 DEF PresetsInv, NamesDistinct, PresetNamesDistinct, SameName
    <3>3. \A d \in Clients : ~(client[d].pc # "idle" /\ client'[d].pc = "idle")
      BY <3>1
    <3>4. QED
      BY <3>1, <3>2, <3>3, Zenon DEF OwnPresetOnly
  <2>3. ASSUME NEW c \in Clients, PresetSave(c) \/ PresetDelete(c)
        PROVE  PresetsInv' /\ PresetNamesDistinct' /\ OwnPresetOnly
    <3>1. /\ PresetsInv' /\ \A d \in Clients : d # c => client'[d] = client[d]
          /\ client[c].read = presets =>
               /\ \A n \in PresetNames : Lower[n] # Lower[client[c].name] =>
                    LoadedPreset(presets', n) = LoadedPreset(presets, n)
               /\ LoadedPreset(presets', client[c].name) =
                    (IF client[c].pc = "save" THEN client[c].config ELSE "preset_not_found")
      BY <2>3, PresetWrite
    <3>2. PresetNamesDistinct'
      BY <3>1 DEF PresetsInv, NamesDistinct, PresetNamesDistinct, SameName
    <3>3. \A d \in Clients : client[d].pc # "idle" /\ client'[d].pc = "idle" => d = c
      BY <3>1
    <3>4. QED
      BY <3>1, <3>2, <3>3, Zenon DEF OwnPresetOnly
  <2>4. QED
    BY <2>1, <2>2, <2>3 DEF PresetsNext
<1>3. QED
  BY <1>1, <1>2, PTL DEF PresetsSpec, PresetsKept

-----------------------------------------------------------------------------
(* State document                                                           *)

(* state-update leaves the shape of a document: it replaces whole lines.    *)
LEMMA UpdatedLines ==
    ASSUME NEW lines \in Seq(DocLine), NEW key \in DocKeys, NEW text \in DocTexts
    PROVE  LET new == Updated(lines, key, text) IN
           /\ new \in Seq(DocLine) /\ Len(new) = Len(lines) /\ DOMAIN new = DOMAIN lines
           /\ \A i \in DOMAIN lines :
                IF Matches(lines[i], key)
                THEN new[i].kind = "scalar" /\ new[i].key = key /\ new[i].text = text
                ELSE new[i] = lines[i]
<1> DEFINE new == Updated(lines, key, text)
           l   == [kind |-> "scalar", key |-> key, text |-> text]
<1>1. l \in DocLine /\ l.kind = "scalar" /\ l.key = key /\ l.text = text
  BY DEF DocLine
<1>2. DOMAIN lines = 1 .. Len(lines) /\ Len(lines) \in Nat /\ \A i \in DOMAIN lines : lines[i] \in DocLine
  BY LenProperties, ElementOfSeq
<1>3. new = [i \in 1 .. Len(lines) |-> IF Matches(lines[i], key) THEN l ELSE lines[i]]
  BY <1>2, Zenon DEF Updated
<1> HIDE DEF l, new
<1>4. new \in Seq(DocLine) /\ Len(new) = Len(lines) /\ DOMAIN new = DOMAIN lines
  BY <1>1, <1>2, <1>3
<1>5. \A i \in DOMAIN lines : new[i] = IF Matches(lines[i], key) THEN l ELSE lines[i]
  BY <1>2, <1>3
<1>6. QED
  BY <1>1, <1>4, <1>5 DEF new

(* A line of the front matter is a line, with the key of the line it is cut *)
(* from; only a text with the mark is cut.                                  *)
LEMMA CutIsLine ==
    ASSUME NEW l \in DocLine
    PROVE  /\ CutLine(l) \in DocLine
           /\ l.text \notin Dashed => CutLine(l) = l
           /\ \A k : Matches(CutLine(l), k) <=> Matches(l, k)
           /\ CutLine(l).kind \in {"open", "scalar"} <=> l.kind \in {"open", "scalar"}
           /\ CutLine(l).key = l.key
           /\ CutLine(l).kind = "item" <=> l.kind = "item"
<1>1. CASE l.text \notin Dashed
  <2>1. CutLine(l) = l
    BY <1>1, Zenon DEF CutLine
  <2>2. QED
    BY <2>1, Zenon
<1>2. CASE l.text \in Dashed
  <2> DEFINE none == ""
             cut == CutAt[l.text]
             kind == IF cut = none THEN "open" ELSE "scalar"
  <2>1. /\ l.text # none /\ l.text # "READY"
        /\ cut \in DocTexts \/ cut = none
    BY <1>2, DocAssumption, Zenon
  <2>2. l \in [kind : {"scalar"}, key : DocKeys, text : DocTexts]
    BY <2>1, Zenon DEF DocLine
  <2>3. l.kind = "scalar" /\ l.key \in DocKeys
    BY <2>2
  <2>4. AsRead(l.text) = cut
    BY <1>2, Zenon DEF AsRead
  <2>5. CutLine(l) = [kind |-> kind, key |-> l.key, text |-> cut]
    BY <1>2, <2>4, Zenon DEF CutLine
  <2>6. cut = none => kind = "open"
    BY Zenon
  <2>7. cut # none => kind = "scalar"
    BY Zenon
  <2>8. /\ [kind : {"open"}, key : DocKeys, text : {none}] \subseteq DocLine
        /\ [kind : {"scalar"}, key : DocKeys, text : DocTexts] \subseteq DocLine
    BY Zenon DEF DocLine
  <2> HIDE DEF cut, kind, none
  <2>9. CutLine(l) \in DocLine
    <3>1. CASE cut = none
      BY <2>3, <2>5, <2>6, <2>8, <3>1
    <3>2. CASE cut # none
      BY <2>1, <2>3, <2>5, <2>7, <2>8, <3>2
    <3>3. QED
      BY <3>1, <3>2
  <2>10. CutLine(l).kind \in {"open", "scalar"} /\ CutLine(l).key = l.key
    BY <2>5, <2>6, <2>7
  <2>11. \A k : Matches(CutLine(l), k) <=> Matches(l, k)
    BY <2>3, <2>10 DEF Matches
  <2>12. CutLine(l).kind # "item" /\ l.kind # "item"
    BY <2>3, <2>10
  <2>13. QED
    BY <1>2, <2>3, <2>9, <2>10, <2>11, <2>12
<1>3. QED
  BY <1>1, <1>2

(* The front matter is lines of the document, as long as it says.           *)
LEMMA FrontReach ==
    ASSUME NEW lines \in Seq(DocLine)
    PROVE  /\ FrontLen(lines) \in Nat /\ FrontLen(lines) <= Len(lines)
           /\ \A i \in DOMAIN lines :
                i <= FrontLen(lines) <=>
                  /\ lines[i].kind # "end"
                  /\ \A j \in 1 .. i - 1 : ~HoldsMark(lines[j])
                  /\ \E j \in DOMAIN lines : HoldsMark(lines[j])
<1> DEFINE marks == {i \in DOMAIN lines : HoldsMark(lines[i])}
           first == CHOOSE i \in marks : \A j \in marks : i <= j
<1>1. DOMAIN lines = 1 .. Len(lines) /\ Len(lines) \in Nat
  BY LenProperties
<1>2. FrontLen(lines) = IF marks = {} THEN 0
                        ELSE IF lines[first].kind = "end" THEN first - 1 ELSE first
  BY Zenon DEF FrontLen
<1>3. CASE marks = {}
  <2>1. FrontLen(lines) = 0
    BY <1>2, <1>3, Zenon
  <2>2. QED
    BY <1>1, <1>3, <2>1
<1>4. CASE marks # {}
  <2>1. marks \subseteq Nat
    BY <1>1
  <2>2. first \in marks /\ \A j \in marks : first <= j
    <3> HIDE DEF marks
    <3>1. QED
      BY <1>4, <2>1, LeastNat
  <2>3. first \in DOMAIN lines /\ HoldsMark(lines[first])
    BY <2>2
  <2>4. \A j \in 1 .. first - 1 : ~HoldsMark(lines[j])
    BY <1>1, <2>2, <2>3
  <2>5. lines[first].kind = "end" => FrontLen(lines) = first - 1
    BY <1>2, <1>4, Zenon
  <2>6. lines[first].kind # "end" => FrontLen(lines) = first
    BY <1>2, <1>4, Zenon
  <2> HIDE DEF first, marks
  <2>7. \A i \in DOMAIN lines : i < first => lines[i].kind # "end"
    BY <1>1, <2>3, <2>4 DEF HoldsMark
  <2>8. QED
    BY <1>1, <2>3, <2>4, <2>5, <2>6, <2>7
<1>5. QED
  BY <1>3, <1>4

(* The lines of the front matter, each cut at the mark.                     *)
LEMMA FrontIsLines ==
    ASSUME NEW lines \in Seq(DocLine)
    PROVE  /\ FrontMatter(lines) \in Seq(DocLine) /\ Len(FrontMatter(lines)) = FrontLen(lines)
           /\ DOMAIN FrontMatter(lines) = 1 .. FrontLen(lines)
           /\ \A i \in 1 .. FrontLen(lines) :
                i \in DOMAIN lines /\ lines[i] \in DocLine /\ FrontMatter(lines)[i] = CutLine(lines[i])
<1>1. DOMAIN lines = 1 .. Len(lines) /\ Len(lines) \in Nat /\ \A i \in DOMAIN lines : lines[i] \in DocLine
  BY LenProperties, ElementOfSeq
<1>2. FrontLen(lines) \in Nat /\ FrontLen(lines) <= Len(lines)
  BY FrontReach
<1>3. \A i \in 1 .. FrontLen(lines) : i \in DOMAIN lines /\ lines[i] \in DocLine
  BY <1>1, <1>2
<1>4. \A i \in 1 .. FrontLen(lines) : CutLine(lines[i]) \in DocLine
  BY <1>3, CutIsLine
<1>5. FrontMatter(lines) = [i \in 1 .. FrontLen(lines) |-> CutLine(lines[i])]
  BY DEF FrontMatter
<1>6. QED
  BY <1>2, <1>3, <1>4, <1>5

(* An update that touches no mark leaves the length of the front matter.    *)
LEMMA FrontLenSame ==
    ASSUME NEW lines \in Seq(DocLine), NEW key \in DocKeys, NEW text \in DocTexts,
           Markless(lines, key, text)
    PROVE  FrontLen(Updated(lines, key, text)) = FrontLen(lines)
<1> DEFINE new == Updated(lines, key, text)
<1>1. DOMAIN lines = 1 .. Len(lines) /\ Len(lines) \in Nat
  BY LenProperties
<1>2. /\ new \in Seq(DocLine) /\ Len(new) = Len(lines) /\ DOMAIN new = DOMAIN lines
      /\ \A i \in DOMAIN lines :
           IF Matches(lines[i], key)
           THEN new[i].kind = "scalar" /\ new[i].key = key /\ new[i].text = text
           ELSE new[i] = lines[i]
  BY UpdatedLines
<1> HIDE DEF new
<1>3. \A i \in DOMAIN lines : /\ new[i].kind = "end" <=> lines[i].kind = "end"
                              /\ HoldsMark(new[i]) <=> HoldsMark(lines[i])
  BY <1>2 DEF Matches, Markless, HoldsMark
<1>4. /\ FrontLen(lines) \in Nat /\ FrontLen(lines) <= Len(lines)
      /\ FrontLen(new) \in Nat /\ FrontLen(new) <= Len(lines)
  BY <1>2, FrontReach
<1>5. \A i \in DOMAIN lines : \A j \in 1 .. i - 1 : j \in DOMAIN lines
  BY <1>1
<1>6. ASSUME NEW i \in DOMAIN lines PROVE i <= FrontLen(new) <=> i <= FrontLen(lines)
  <2>1. i <= FrontLen(lines) <=>
          /\ lines[i].kind # "end"
          /\ \A j \in 1 .. i - 1 : ~HoldsMark(lines[j])
          /\ \E j \in DOMAIN lines : HoldsMark(lines[j])
    BY FrontReach
  <2>2. i <= FrontLen(new) <=>
          /\ new[i].kind # "end"
          /\ \A j \in 1 .. i - 1 : ~HoldsMark(new[j])
          /\ \E j \in DOMAIN lines : HoldsMark(new[j])
    BY <1>2, FrontReach
  <2>3. QED
    BY <1>3, <1>5, <2>1, <2>2, Zenon
<1>7. QED
  BY <1>1, <1>4, <1>6 DEF new

(* The front matter of a document updated without a mark is the updated     *)
(* front matter.                                                            *)
LEMMA FrontOfUpdated ==
    ASSUME NEW lines \in Seq(DocLine), NEW key \in DocKeys, NEW text \in DocTexts,
           Markless(lines, key, text)
    PROVE  FrontMatter(Updated(lines, key, text)) = Updated(FrontMatter(lines), key, text)
<1> DEFINE new   == Updated(lines, key, text)
           l     == [kind |-> "scalar", key |-> key, text |-> text]
           n     == FrontLen(lines)
           front == FrontMatter(lines)
<1>1. /\ new \in Seq(DocLine) /\ FrontLen(new) = n /\ n \in Nat
  BY UpdatedLines, FrontLenSame, FrontReach
<1>2. /\ front \in Seq(DocLine) /\ Len(front) = n /\ DOMAIN front = 1 .. n
      /\ \A i \in 1 .. n : i \in DOMAIN lines /\ lines[i] \in DocLine /\ front[i] = CutLine(lines[i])
  BY FrontIsLines
<1>3. /\ FrontMatter(new) \in Seq(DocLine) /\ Len(FrontMatter(new)) = n
      /\ \A i \in 1 .. n : FrontMatter(new)[i] = CutLine(new[i])
  BY <1>1, FrontIsLines
<1>4. /\ Updated(front, key, text) \in Seq(DocLine) /\ Len(Updated(front, key, text)) = n
      /\ \A i \in 1 .. n : Updated(front, key, text)[i] = IF Matches(front[i], key) THEN l ELSE front[i]
  <2>1. Updated(front, key, text) \in Seq(DocLine) /\ Len(Updated(front, key, text)) = n
    BY <1>2, UpdatedLines
  <2>2. QED
    BY <1>2, <2>1 DEF Updated
<1>5. \A i \in DOMAIN lines : new[i] = IF Matches(lines[i], key) THEN l ELSE lines[i]
  BY DEF Updated
<1>6. CutLine(l) = l
  <2>1. l.text \notin Dashed
    BY DEF Markless
  <2>2. QED
    BY <2>1, Zenon DEF CutLine
<1> HIDE DEF new, front, n, l
<1>7. ASSUME NEW i \in 1 .. n PROVE FrontMatter(new)[i] = Updated(front, key, text)[i]
  <2>1. /\ FrontMatter(new)[i] = CutLine(new[i]) /\ front[i] = CutLine(lines[i])
        /\ i \in DOMAIN lines /\ lines[i] \in DocLine
    BY <1>2, <1>3
  <2>2. Matches(front[i], key) <=> Matches(lines[i], key)
    BY <2>1, CutIsLine
  <2>3. QED
    BY <1>4, <1>5, <1>6, <2>1, <2>2
<1>8. FrontMatter(new) = Updated(front, key, text)
  BY <1>1, <1>3, <1>4, <1>7, SeqEqual
<1>9. QED
  BY <1>8 DEF new, front

\* The lines of a key, and those with a key above a line.
KeyLines(front, k) == {j \in DOMAIN front : front[j].kind \in {"open", "scalar"} /\ front[j].key = k}
KeyedAbove(front, i) == {j \in 1 .. i - 1 : front[j].kind \in {"open", "scalar"}}
LastOf(T) == CHOOSE j \in T : \A x \in T : x <= j
ItemsBelow(front, k, last) ==
    {i \in last + 1 .. Len(front) : front[i].kind = "item" /\ OpenListAt(front, i) = k}

(* The greatest of some lines is one of them.                               *)
LEMMA LastIsLine ==
    ASSUME NEW n \in Nat, NEW T, T \subseteq 1 .. n, T # {}
    PROVE  LastOf(T) \in T /\ \A x \in T : x <= LastOf(T)
<1>1. \E j \in T : \A x \in T : x <= j
  BY GreatestNat
<1>2. QED
  BY <1>1 DEF LastOf

(* What is parsed of a key, in these terms.                                 *)
LEMMA ParsedKey ==
    ASSUME NEW lines, NEW k
    PROVE  LET front == FrontMatter(lines)
               own   == KeyLines(front, k)
           IN  ParseFrontMatter(lines, k) =
                 IF own = {} THEN [text |-> "", items |-> 0]
                 ELSE [text |-> front[LastOf(own)].text,
                       items |-> Cardinality(ItemsBelow(front, k, LastOf(own)))]
  BY Zenon DEF ParseFrontMatter, KeyLines, LastOf, ItemsBelow

(* The list a line belongs to, in these terms.                              *)
LEMMA OpenList ==
    ASSUME NEW front, NEW i
    PROVE  OpenListAt(front, i) =
             IF KeyedAbove(front, i) = {} THEN ""
             ELSE IF front[LastOf(KeyedAbove(front, i))].kind = "open"
                  THEN front[LastOf(KeyedAbove(front, i))].key ELSE ""
  BY Zenon DEF OpenListAt, KeyedAbove, LastOf

(* An update of one key leaves the lists of the others as they are.         *)
LEMMA OtherListSame ==
    ASSUME NEW front \in Seq(DocLine), NEW key \in DocKeys, NEW text \in DocTexts,
           NEW k \in DocKeys, k # key, NEW i \in DOMAIN front
    PROVE  OpenListAt(Updated(front, key, text), i) = k <=> OpenListAt(front, i) = k
<1> DEFINE new  == Updated(front, key, text)
           last == LastOf(KeyedAbove(front, i))
<1>1. DOMAIN front = 1 .. Len(front) /\ Len(front) \in Nat
  BY LenProperties
<1>2. \A j \in DOMAIN front :
           IF Matches(front[j], key)
           THEN new[j].kind = "scalar" /\ new[j].key = key /\ new[j].text = text
           ELSE new[j] = front[j]
  BY UpdatedLines
<1>3. k # ""
  BY DocAssumption
<1> HIDE DEF new
<1>4. i \in Nat /\ \A j \in 1 .. i - 1 : j \in DOMAIN front
  BY <1>1
<1>5. KeyedAbove(new, i) = KeyedAbove(front, i)
  BY <1>2, <1>4 DEF KeyedAbove, Matches
<1>6. CASE KeyedAbove(front, i) = {}
  <2>1. OpenListAt(new, i) = "" /\ OpenListAt(front, i) = ""
    BY <1>5, <1>6, OpenList, Zenon
  <2>2. QED
    BY <1>3, <2>1, Zenon DEF new
<1>7. CASE KeyedAbove(front, i) # {}
  <2>1. /\ OpenListAt(new, i) = (IF new[last].kind = "open" THEN new[last].key ELSE "")
        /\ OpenListAt(front, i) = (IF front[last].kind = "open" THEN front[last].key ELSE "")
    BY <1>5, <1>7, OpenList, Zenon
  <2>2. KeyedAbove(front, i) \subseteq 1 .. Len(front)
    BY <1>1, <1>4 DEF KeyedAbove
  <2>3. last \in DOMAIN front
    BY <1>1, <1>7, <2>2, LastIsLine
  <2> HIDE DEF last
  <2>4. CASE Matches(front[last], key)
    <3>1. new[last].kind = "scalar" /\ front[last].key = key
      BY <1>2, <2>3, <2>4 DEF Matches
    <3>2. OpenListAt(new, i) = ""
      BY <2>1, <3>1
    <3>3. OpenListAt(front, i) = key \/ OpenListAt(front, i) = ""
      BY <2>1, <3>1
    <3>4. QED
      BY <1>3, <3>2, <3>3, Zenon DEF new
  <2>5. CASE ~Matches(front[last], key)
    <3>1. new[last] = front[last]
      BY <1>2, <2>3, <2>5
    <3>2. OpenListAt(new, i) = OpenListAt(front, i)
      <4>1. CASE front[last].kind = "open"
        BY <2>1, <3>1, <4>1
      <4>2. CASE front[last].kind # "open"
        BY <2>1, <3>1, <4>2
      <4>3. QED
        BY <4>1, <4>2
    <3>3. QED
      BY <3>2, Zenon DEF new
  <2>6. QED
    BY <2>4, <2>5
<1>8. QED
  BY <1>6, <1>7

(* Without a mark in the text or in a line it replaces, every other key     *)
(* reads as before.                                                         *)
LEMMA OtherKeySame ==
    ASSUME NEW lines \in Seq(DocLine), NEW key \in DocKeys, NEW text \in DocTexts,
           NEW k \in DocKeys, k # key, Markless(lines, key, text)
    PROVE  ParseFrontMatter(Updated(lines, key, text), k) = ParseFrontMatter(lines, k)
<1> DEFINE front == FrontMatter(lines)
           new   == Updated(front, key, text)
           last  == LastOf(KeyLines(front, k))
<1>1. FrontMatter(Updated(lines, key, text)) = new /\ front \in Seq(DocLine)
  BY FrontOfUpdated, FrontIsLines
<1> HIDE DEF front
<1>2. DOMAIN front = 1 .. Len(front) /\ Len(front) \in Nat
  BY <1>1, LenProperties
<1>3. /\ Len(new) = Len(front) /\ DOMAIN new = DOMAIN front
      /\ \A j \in DOMAIN front :
           IF Matches(front[j], key)
           THEN new[j].kind = "scalar" /\ new[j].key = key /\ new[j].text = text
           ELSE new[j] = front[j]
  BY <1>1, UpdatedLines
<1>4. \A i \in DOMAIN front : OpenListAt(new, i) = k <=> OpenListAt(front, i) = k
  BY <1>1, OtherListSame
<1> HIDE DEF new
<1>5. KeyLines(new, k) = KeyLines(front, k)
  BY <1>3 DEF KeyLines, Matches
<1>6. CASE KeyLines(front, k) = {}
  BY <1>1, <1>5, <1>6, ParsedKey, Zenon DEF front
<1>7. CASE KeyLines(front, k) # {}
  <2>1. KeyLines(front, k) \subseteq 1 .. Len(front)
    BY <1>2 DEF KeyLines
  <2>2. last \in KeyLines(front, k)
    BY <1>2, <1>7, <2>1, LastIsLine
  <2> HIDE DEF last
  <2>3. last \in DOMAIN front /\ last \in 1 .. Len(front) /\ new[last].text = front[last].text
    BY <1>2, <1>3, <2>2 DEF KeyLines, Matches
  <2>4. \A i \in last + 1 .. Len(front) : i \in DOMAIN front
    BY <1>2, <2>3
  <2>5. \A i \in DOMAIN front : new[i].kind = "item" <=> front[i].kind = "item"
    BY <1>3 DEF Matches
  <2>6. ItemsBelow(new, k, last) = ItemsBelow(front, k, last)
    BY <1>3, <1>4, <2>4, <2>5 DEF ItemsBelow
  <2>7. /\ ParseFrontMatter(Updated(lines, key, text), k) =
             [text |-> new[last].text, items |-> Cardinality(ItemsBelow(new, k, last))]
        /\ ParseFrontMatter(lines, k) =
             [text |-> front[last].text, items |-> Cardinality(ItemsBelow(front, k, last))]
    BY <1>1, <1>5, <1>7, ParsedKey, Zenon DEF front, last
  <2>8. QED
    BY <2>3, <2>6, <2>7, Zenon
<1>8. QED
  BY <1>6, <1>7

(* A key with a line in the front matter keeps one there, if no mark comes  *)
(* or goes or the document has a mark on a line of its own.                 *)
LEMMA StaysInFront ==
    ASSUME NEW lines \in Seq(DocLine), NEW key \in DocKeys, NEW text \in DocTexts,
           InFront(lines, key), Markless(lines, key, text) \/ Ended(lines)
    PROVE  InFront(Updated(lines, key, text), key)
<1> DEFINE new == Updated(lines, key, text)
           own == {i \in DOMAIN lines : Matches(lines[i], key)}
<1>1. DOMAIN lines = 1 .. Len(lines) /\ Len(lines) \in Nat
  BY LenProperties
<1>2. /\ new \in Seq(DocLine) /\ DOMAIN new = DOMAIN lines
      /\ \A i \in DOMAIN lines :
           IF Matches(lines[i], key)
           THEN new[i].kind = "scalar" /\ new[i].key = key /\ new[i].text = text
           ELSE new[i] = lines[i]
  BY UpdatedLines
<1>3. PICK m \in 1 .. FrontLen(lines) : m \in DOMAIN lines /\ Matches(lines[m], key)
  <2>1. \E m \in DOMAIN FrontMatter(lines) : Matches(FrontMatter(lines)[m], key)
    BY DEF InFront
  <2>2. \A m \in 1 .. FrontLen(lines) :
          m \in DOMAIN lines /\ (Matches(FrontMatter(lines)[m], key) <=> Matches(lines[m], key))
    BY FrontIsLines, CutIsLine
  <2>3. QED
    BY <2>1, <2>2, FrontIsLines
<1>4. ASSUME NEW i \in DOMAIN lines, i <= FrontLen(new), Matches(lines[i], key)
      PROVE  InFront(new, key)
  <2>1. i \in 1 .. FrontLen(new) /\ FrontLen(new) \in Nat
    BY <1>1, <1>2, <1>4, FrontReach
  <2>2. i \in DOMAIN FrontMatter(new) /\ FrontMatter(new)[i] = CutLine(new[i]) /\ new[i] \in DocLine
    BY <1>2, <2>1, FrontIsLines
  <2>3. Matches(new[i], key)
    BY <1>2, <1>4 DEF Matches
  <2>4. Matches(FrontMatter(new)[i], key)
    BY <2>2, <2>3, CutIsLine
  <2> HIDE DEF new
  <2>5. QED
    BY <2>2, <2>4, Zenon DEF InFront
<1> HIDE DEF new
<1>5. CASE Markless(lines, key, text)
  <2>1. FrontLen(new) = FrontLen(lines) /\ FrontLen(lines) \in Nat
    BY <1>5, FrontLenSame, FrontReach DEF new
  <2>2. QED
    BY <1>3, <1>4, <2>1 DEF new
<1>6. CASE Ended(lines)
  <2>1. own # {} /\ own \subseteq Nat
    BY <1>1, <1>3
  <2>2. PICK r \in own : \A j \in own : r <= j
    <3> HIDE DEF own
    <3>1. QED
      BY <2>1, LeastNat, Zenon
  <2>3. r \in DOMAIN lines /\ Matches(lines[r], key) /\ r \in Nat
    BY <2>1, <2>2
  <2>4. \A j \in 1 .. r - 1 : j \in DOMAIN lines /\ new[j] = lines[j]
    BY <1>1, <1>2, <2>2, <2>3
  <2>5. r <= m
    BY <1>3, <2>2
  <2>6. r <= FrontLen(lines)
    BY <1>3, <2>3, <2>5, FrontReach
  <2>7. \A j \in 1 .. r - 1 : ~HoldsMark(new[j])
    BY <2>3, <2>4, <2>6, FrontReach
  <2>8. \E j \in DOMAIN lines : HoldsMark(new[j])
    BY <1>2, <1>6 DEF Ended, HoldsMark, Matches
  <2>9. new[r].kind # "end"
    BY <1>2, <2>3
  <2>10. r <= FrontLen(new)
    BY <1>2, <2>3, <2>7, <2>8, <2>9, FrontReach
  <2>11. QED
    BY <1>4, <2>3, <2>10 DEF new
<1>7. QED
  BY <1>5, <1>6

(* A key in the front matter of the updated document reads as the new text, *)
(* up to the mark, even if it was a list.                                   *)
LEMMA OwnKeyReads ==
    ASSUME NEW lines \in Seq(DocLine), NEW key \in DocKeys, NEW text \in DocTexts,
           InFront(Updated(lines, key, text), key)
    PROVE  ParseFrontMatter(Updated(lines, key, text), key) = [text |-> AsRead(text), items |-> 0]
<1> DEFINE new   == Updated(lines, key, text)
           front == FrontMatter(new)
           n     == FrontLen(new)
           last  == LastOf(KeyLines(front, key))
<1>1. /\ new \in Seq(DocLine) /\ DOMAIN new = DOMAIN lines
      /\ \A i \in DOMAIN lines :
           IF Matches(lines[i], key)
           THEN new[i].kind = "scalar" /\ new[i].key = key /\ new[i].text = text
           ELSE new[i] = lines[i]
  BY UpdatedLines
<1> HIDE DEF new
<1>2. /\ front \in Seq(DocLine) /\ Len(front) = n /\ DOMAIN front = 1 .. n
      /\ \A i \in 1 .. n : i \in DOMAIN new /\ new[i] \in DocLine /\ front[i] = CutLine(new[i])
  BY <1>1, FrontIsLines
<1>3. n \in Nat
  BY <1>1, FrontReach
<1>4. PICK m \in DOMAIN front : Matches(front[m], key)
  BY DEF InFront, new
<1>5. ASSUME NEW j \in KeyLines(front, key)
      PROVE  /\ front[j].text = AsRead(text)
             /\ front[j].kind = "open" => n <= j
  <2>1. j \in 1 .. n /\ Matches(front[j], key)
    BY <1>2 DEF KeyLines, Matches
  <2>2. /\ j \in DOMAIN new /\ new[j] \in DocLine /\ front[j] = CutLine(new[j])
        /\ Matches(new[j], key)
    BY <1>2, <2>1, CutIsLine
  <2>3. new[j].kind = "scalar" /\ new[j].key = key /\ new[j].text = text
    BY <1>1, <2>2
  <2> HIDE DEF front
  <2>4. CASE text \notin Dashed
    <3>1. front[j] = new[j] /\ AsRead(text) = text
      BY <2>2, <2>3, <2>4, Zenon DEF CutLine, AsRead
    <3>2. QED
      BY <2>3, <3>1
  <2>5. CASE text \in Dashed
    <3>1. front[j].text = AsRead(text)
      <4> DEFINE kind == IF AsRead(text) = "" THEN "open" ELSE "scalar"
      <4>1. front[j] = [kind |-> kind, key |-> key, text |-> AsRead(text)]
        BY <2>2, <2>3, <2>5, Zenon DEF CutLine
      <4> HIDE DEF kind
      <4>2. QED
        BY <4>1
    <3>2. HoldsMark(new[j])
      BY <2>3, <2>5 DEF HoldsMark
    <3>3. ~(j < n)
      <4>1. SUFFICES ASSUME j < n PROVE FALSE
        OBVIOUS
      <4>2. j + 1 \in 1 .. n /\ j \in 1 .. (j + 1) - 1
        BY <1>3, <2>1, <4>1
      <4>3. j + 1 \in DOMAIN new /\ j + 1 <= n
        BY <1>2, <1>3, <4>2
      <4>4. \A i \in 1 .. (j + 1) - 1 : ~HoldsMark(new[i])
        BY <1>1, <4>3, FrontReach
      <4>5. QED
        BY <3>2, <4>2, <4>4
    <3>4. QED
      BY <1>3, <2>1, <3>1, <3>3
  <2>6. QED
    BY <2>4, <2>5
<1> HIDE DEF front, n
<1>6. KeyLines(front, key) # {}
  <2>1. m \in KeyLines(front, key)
    BY <1>4 DEF KeyLines, Matches
  <2>2. QED
    BY <2>1
<1>7. KeyLines(front, key) \subseteq 1 .. n
  BY <1>2 DEF KeyLines
<1>8. last \in KeyLines(front, key) /\ \A x \in KeyLines(front, key) : x <= last
  BY <1>3, <1>6, <1>7, LastIsLine
<1>9. ParseFrontMatter(new, key) =
        [text |-> front[last].text, items |-> Cardinality(ItemsBelow(front, key, last))]
  BY <1>6, ParsedKey, Zenon DEF front
<1> HIDE DEF last
<1>10. last \in 1 .. n
  BY <1>7, <1>8
<1>11. ItemsBelow(front, key, last) = {}
  <2>1. SUFFICES ASSUME NEW i \in last + 1 .. n, OpenListAt(front, i) = key PROVE FALSE
    BY <1>2 DEF ItemsBelow
  <2> DEFINE top == LastOf(KeyedAbove(front, i))
  <2>2. i \in Nat /\ last \in 1 .. i - 1 /\ i - 1 \in Nat /\ i <= n
    BY <1>3, <1>10, <2>1
  <2>3. last \in KeyedAbove(front, i)
    BY <1>8, <2>2 DEF KeyedAbove, KeyLines
  <2>4. KeyedAbove(front, i) \subseteq 1 .. i - 1 /\ KeyedAbove(front, i) # {}
    BY <2>3 DEF KeyedAbove
  <2>5. top \in KeyedAbove(front, i) /\ last <= top
    BY <2>2, <2>3, <2>4, LastIsLine
  <2>6. OpenListAt(front, i) = IF front[top].kind = "open" THEN front[top].key ELSE ""
    BY <2>4, OpenList, Zenon
  <2>7. key # ""
    BY DocAssumption
  <2>8. front[top].kind = "open" /\ front[top].key = key
    BY <2>1, <2>6, <2>7, Zenon
  <2> HIDE DEF top
  <2>9. top \in 1 .. n /\ top < n
    BY <1>3, <2>2, <2>5 DEF KeyedAbove
  <2>10. top \in KeyLines(front, key)
    BY <1>2, <2>8, <2>9 DEF KeyLines
  <2>11. n <= top
    BY <1>5, <2>8, <2>10
  <2>12. QED
    BY <1>3, <2>9, <2>11
<1>12. Cardinality(ItemsBelow(front, key, last)) = 0
  BY <1>11, FS_EmptySet
<1>13. front[last].text = AsRead(text)
  BY <1>5, <1>8
<1>14. QED
  BY <1>9, <1>12, <1>13, Zenon DEF new

(* A list ends above the next line with a key.                              *)
LEMMA ItemsEnd ==
    ASSUME NEW front \in Seq(DocLine), NEW k \in DocKeys, NEW last \in Nat,
           NEW r \in DOMAIN front, front[r].kind \in {"open", "scalar"}, front[r].key # k,
           \A j \in KeyLines(front, k) : j < r
    PROVE  \A i \in ItemsBelow(front, k, last) : i < r
<1>1. DOMAIN front = 1 .. Len(front) /\ Len(front) \in Nat
  BY LenProperties
<1>2. SUFFICES ASSUME NEW i \in ItemsBelow(front, k, last), ~(i < r) PROVE FALSE
  OBVIOUS
<1>3. /\ i \in last + 1 .. Len(front) /\ front[i].kind = "item" /\ OpenListAt(front, i) = k
      /\ last + 1 >= 1 /\ last + 1 \in Nat
  BY <1>2 DEF ItemsBelow
<1>4. i # r
  BY <1>3
<1>5. i \in Nat /\ i - 1 \in Nat /\ r \in 1 .. i - 1 /\ i <= Len(front)
  BY <1>1, <1>2, <1>3, <1>4
<1> DEFINE top == LastOf(KeyedAbove(front, i))
<1>6. r \in KeyedAbove(front, i) /\ KeyedAbove(front, i) \subseteq 1 .. i - 1
  BY <1>5 DEF KeyedAbove
<1>7. top \in KeyedAbove(front, i) /\ r <= top
  BY <1>5, <1>6, LastIsLine
<1>8. OpenListAt(front, i) = IF front[top].kind = "open" THEN front[top].key ELSE ""
  BY <1>6, OpenList, Zenon
<1>9. k # ""
  BY DocAssumption
<1>10. front[top].key = k
  BY <1>3, <1>8, <1>9, Zenon
<1> HIDE DEF top
<1>11. top \in KeyLines(front, k)
  BY <1>1, <1>5, <1>7, <1>10 DEF KeyedAbove, KeyLines
<1>12. top \in Nat /\ r \in Nat /\ top < r
  BY <1>1, <1>11 DEF KeyLines
<1>13. QED
  BY <1>7, <1>12

(* Above its first replaced line a document with a mark of its own is read  *)
(* alike before and after an update.                                        *)
LEMMA FrontAbove ==
    ASSUME NEW lines \in Seq(DocLine), NEW key \in DocKeys, NEW text \in DocTexts,
           Ended(lines), NEW r \in DOMAIN lines, Matches(lines[r], key),
           \A j \in DOMAIN lines : Matches(lines[j], key) => r <= j
    PROVE  LET new == Updated(lines, key, text) IN
           /\ \A i \in 1 .. r - 1 : new[i] = lines[i]
           /\ \A i \in 1 .. r : i <= FrontLen(new) <=> i <= FrontLen(lines)
<1> DEFINE new == Updated(lines, key, text)
<1>1. DOMAIN lines = 1 .. Len(lines) /\ Len(lines) \in Nat
  BY LenProperties
<1>2. /\ new \in Seq(DocLine) /\ DOMAIN new = DOMAIN lines
      /\ \A i \in DOMAIN lines :
           IF Matches(lines[i], key)
           THEN new[i].kind = "scalar" /\ new[i].key = key /\ new[i].text = text
           ELSE new[i] = lines[i]
  BY UpdatedLines
<1> HIDE DEF new
<1>3. \A i \in 1 .. r - 1 : i \in DOMAIN lines /\ new[i] = lines[i]
  BY <1>1, <1>2
<1>4. ASSUME NEW i \in 1 .. r PROVE i <= FrontLen(new) <=> i <= FrontLen(lines)
  <2>1. i \in DOMAIN lines /\ \A j \in 1 .. i - 1 : j \in 1 .. r - 1
    BY <1>1
  <2>2. new[i].kind = "end" <=> lines[i].kind = "end"
    BY <1>2, <2>1 DEF Matches
  <2>3. /\ \E j \in DOMAIN lines : HoldsMark(lines[j])
        /\ \E j \in DOMAIN lines : HoldsMark(new[j])
    BY <1>2 DEF Ended, HoldsMark, Matches
  <2>4. i <= FrontLen(lines) <=>
          lines[i].kind # "end" /\ \A j \in 1 .. i - 1 : ~HoldsMark(lines[j])
    BY <2>1, <2>3, FrontReach
  <2>5. i <= FrontLen(new) <=>
          new[i].kind # "end" /\ \A j \in 1 .. i - 1 : ~HoldsMark(new[j])
    BY <1>2, <2>1, <2>3, FrontReach
  <2>6. QED
    BY <1>3, <2>1, <2>2, <2>4, <2>5, Zenon
<1>5. QED
  BY <1>3, <1>4 DEF new

(* The items of a key above a line are above it, in the front matter as far *)
(* as it reaches.                                                           *)
LEMMA ItemsAboveLine ==
    ASSUME NEW lines \in Seq(DocLine), NEW k \in DocKeys, NEW key, key # k, NEW last \in Nat,
           NEW r \in DOMAIN lines, Matches(lines[r], key),
           \A j \in DOMAIN lines : Matches(lines[j], k) => j < r
    PROVE  \A i \in ItemsBelow(FrontMatter(lines), k, last) :
              i \in 1 .. r - 1 /\ i \in 1 .. FrontLen(lines)
<1> DEFINE front == FrontMatter(lines)
           n     == FrontLen(lines)
<1>1. DOMAIN lines = 1 .. Len(lines) /\ Len(lines) \in Nat /\ n \in Nat
  BY LenProperties, FrontReach
<1>2. /\ front \in Seq(DocLine) /\ Len(front) = n /\ DOMAIN front = 1 .. n
      /\ \A i \in 1 .. n : i \in DOMAIN lines /\ lines[i] \in DocLine /\ front[i] = CutLine(lines[i])
  BY FrontIsLines
<1> HIDE DEF front, n
<1>3. \A i \in ItemsBelow(front, k, last) : i \in Nat /\ i \in 1 .. n
  BY <1>1, <1>2 DEF ItemsBelow
<1>4. \A j \in KeyLines(front, k) : j < r
  <2>1. TAKE j \in KeyLines(front, k)
  <2>2. j \in 1 .. n /\ Matches(front[j], k)
    BY <1>2 DEF KeyLines, Matches
  <2>3. Matches(lines[j], k) /\ j \in DOMAIN lines
    BY <1>2, <2>2, CutIsLine
  <2>4. QED
    BY <2>3
<1>5. CASE r <= n
  <2>1. r \in 1 .. n
    BY <1>1, <1>5
  <2>2. Matches(front[r], key) /\ r \in DOMAIN front
    BY <1>2, <2>1, CutIsLine
  <2>3. \A i \in ItemsBelow(front, k, last) : i < r
    BY <1>2, <1>4, <2>2, ItemsEnd DEF Matches
  <2>4. QED
    BY <1>1, <1>3, <2>3 DEF front, n
<1>6. CASE ~(r <= n)
  BY <1>1, <1>3, <1>6 DEF front, n
<1>7. QED
  BY <1>5, <1>6

(* Whatever the text, in a document with a mark of its own a key above the  *)
(* replaced lines reads as before.                                          *)
LEMMA KeyAboveSame ==
    ASSUME NEW lines \in Seq(DocLine), NEW key \in DocKeys, NEW text \in DocTexts,
           NEW k \in DocKeys, k # key, Ended(lines), AllAbove(lines, k, key),
           NEW m \in DOMAIN lines, Matches(lines[m], key)
    PROVE  ParseFrontMatter(Updated(lines, key, text), k) = ParseFrontMatter(lines, k)
<1> DEFINE new   == Updated(lines, key, text)
           front == FrontMatter(lines)
           newf  == FrontMatter(new)
           n     == FrontLen(lines)
           own   == {i \in DOMAIN lines : Matches(lines[i], key)}
           last  == LastOf(KeyLines(front, k))
<1>1. DOMAIN lines = 1 .. Len(lines) /\ Len(lines) \in Nat
  BY LenProperties
<1>2. PICK r \in DOMAIN lines :
        Matches(lines[r], key) /\ \A j \in DOMAIN lines : Matches(lines[j], key) => r <= j
  <2>1. own # {} /\ own \subseteq Nat
    BY <1>1
  <2>2. \E r \in own : \A j \in own : r <= j
    <3> HIDE DEF own
    <3>1. QED
      BY <2>1, LeastNat, Zenon
  <2>3. QED
    BY <2>2
<1>3. /\ new \in Seq(DocLine) /\ DOMAIN new = DOMAIN lines
      /\ \A i \in DOMAIN lines :
           IF Matches(lines[i], key)
           THEN new[i].kind = "scalar" /\ new[i].key = key /\ new[i].text = text
           ELSE new[i] = lines[i]
  BY UpdatedLines
<1>4. /\ \A i \in 1 .. r - 1 : new[i] = lines[i]
      /\ \A i \in 1 .. r : i <= FrontLen(new) <=> i <= n
  BY <1>2, FrontAbove
<1> HIDE DEF new
<1>5. /\ front \in Seq(DocLine) /\ DOMAIN front = 1 .. n /\ Len(front) = n
      /\ \A i \in 1 .. n : i \in DOMAIN lines /\ lines[i] \in DocLine /\ front[i] = CutLine(lines[i])
      /\ newf \in Seq(DocLine) /\ DOMAIN newf = 1 .. FrontLen(new) /\ Len(newf) = FrontLen(new)
      /\ \A i \in 1 .. FrontLen(new) : i \in DOMAIN new /\ new[i] \in DocLine /\ newf[i] = CutLine(new[i])
  BY <1>3, FrontIsLines
<1>6. n \in Nat /\ FrontLen(new) \in Nat /\ r \in Nat
  BY <1>1, <1>3, FrontReach
<1>7. \A j \in DOMAIN lines : Matches(lines[j], k) => j < r
  BY <1>2 DEF AllAbove
<1>8. \A j \in DOMAIN new : Matches(new[j], k) <=> Matches(lines[j], k)
  BY <1>3 DEF Matches
<1>9. Matches(new[r], key)
  BY <1>2, <1>3 DEF Matches
<1> HIDE DEF front, newf, n
<1>10. \A i \in 1 .. r - 1 : /\ i \in 1 .. FrontLen(new) <=> i \in 1 .. n
                             /\ i \in 1 .. n => newf[i] = front[i]
  <2>1. TAKE i \in 1 .. r - 1
  <2>2. i \in 1 .. r /\ i \in Nat /\ 1 <= i
    BY <1>6
  <2>3. i \in 1 .. FrontLen(new) <=> i \in 1 .. n
    BY <1>4, <1>6, <2>2
  <2>4. i \in 1 .. n => newf[i] = front[i]
    BY <1>4, <1>5, <2>1, <2>3
  <2>5. QED
    BY <2>3, <2>4
<1>11. \A j \in KeyLines(front, k) : j \in 1 .. r - 1 /\ j \in 1 .. n
  <2>1. TAKE j \in KeyLines(front, k)
  <2>2. j \in 1 .. n /\ Matches(front[j], k)
    BY <1>5 DEF KeyLines, Matches
  <2>3. j \in DOMAIN lines /\ Matches(lines[j], k)
    BY <1>5, <2>2, CutIsLine
  <2>4. QED
    BY <1>1, <1>6, <1>7, <2>2, <2>3
<1>12. \A j \in KeyLines(newf, k) : j \in 1 .. r - 1
  <2>1. TAKE j \in KeyLines(newf, k)
  <2>2. j \in 1 .. FrontLen(new) /\ Matches(newf[j], k)
    BY <1>5 DEF KeyLines, Matches
  <2>3. j \in DOMAIN lines /\ Matches(lines[j], k)
    BY <1>3, <1>5, <1>8, <2>2, CutIsLine
  <2>4. QED
    BY <1>1, <1>6, <1>7, <2>2, <2>3
<1>13. KeyLines(newf, k) = KeyLines(front, k)
  <2>1. \A j \in 1 .. r - 1 : j \in KeyLines(newf, k) <=> j \in KeyLines(front, k)
    BY <1>5, <1>10, Zenon DEF KeyLines
  <2>2. QED
    BY <1>11, <1>12, <2>1
<1>14. CASE KeyLines(front, k) = {}
  BY <1>13, <1>14, ParsedKey, Zenon DEF front, newf, new
<1>15. CASE KeyLines(front, k) # {}
  <2>1. KeyLines(front, k) \subseteq 1 .. n
    BY <1>11
  <2>2. last \in KeyLines(front, k)
    BY <1>6, <1>15, <2>1, LastIsLine
  <2> HIDE DEF last
  <2>3. last \in Nat /\ newf[last] = front[last]
    BY <1>10, <1>11, <2>2
  <2>4. \A i \in ItemsBelow(front, k, last) : i \in 1 .. r - 1
    BY <1>2, <1>7, <2>3, ItemsAboveLine DEF front
  <2>5. \A i \in ItemsBelow(newf, k, last) : i \in 1 .. r - 1
    <3>1. \A j \in DOMAIN new : Matches(new[j], k) => j < r
      BY <1>3, <1>7, <1>8
    <3>2. QED
      BY <1>2, <1>3, <1>9, <2>3, <3>1, ItemsAboveLine DEF newf
  <2>6. ASSUME NEW i \in 1 .. r - 1, i \in 1 .. n
        PROVE  OpenListAt(newf, i) = OpenListAt(front, i)
    <3>1. \A j \in 1 .. i - 1 : j \in 1 .. n /\ j \in 1 .. r - 1
      BY <1>6, <2>6
    <3>2. \A j \in 1 .. i - 1 : newf[j] = front[j]
      BY <1>10, <3>1
    <3>3. KeyedAbove(newf, i) = KeyedAbove(front, i)
      BY <3>2 DEF KeyedAbove
    <3>4. CASE KeyedAbove(front, i) = {}
      BY <3>3, <3>4, OpenList, Zenon
    <3>5. CASE KeyedAbove(front, i) # {}
      <4> DEFINE top == LastOf(KeyedAbove(front, i))
      <4>1. i - 1 \in Nat /\ KeyedAbove(front, i) \subseteq 1 .. i - 1
        BY <1>6, <2>6 DEF KeyedAbove
      <4>2. top \in KeyedAbove(front, i)
        BY <3>5, <4>1, LastIsLine
      <4> HIDE DEF top
      <4>3. newf[top] = front[top]
        BY <3>2, <4>1, <4>2
      <4>4. QED
        BY <3>3, <3>5, <4>3, OpenList, Zenon DEF top
    <3>6. QED
      BY <3>4, <3>5
  <2>7. ItemsBelow(newf, k, last) = ItemsBelow(front, k, last)
    <3>1. ASSUME NEW i \in 1 .. r - 1 PROVE i \in ItemsBelow(newf, k, last) <=> i \in ItemsBelow(front, k, last)
      <4>1. i \in last + 1 .. n => i \in 1 .. n
        BY <1>6, <2>3
      <4>2. i \in Nat /\ 1 <= i /\ (i \in 1 .. FrontLen(new) <=> i \in 1 .. n)
        BY <1>6, <1>10
      <4>3. i \in last + 1 .. n <=> i \in last + 1 .. FrontLen(new)
        BY <1>6, <2>3, <4>2
      <4>4. i \in 1 .. n => newf[i] = front[i]
        BY <1>10
      <4>5. QED
        BY <1>5, <2>6, <4>1, <4>3, <4>4, Zenon DEF ItemsBelow
    <3>2. QED
      BY <2>4, <2>5, <3>1
  <2>8. /\ ParseFrontMatter(new, k) =
             [text |-> newf[last].text, items |-> Cardinality(ItemsBelow(newf, k, last))]
        /\ ParseFrontMatter(lines, k) =
             [text |-> front[last].text, items |-> Cardinality(ItemsBelow(front, k, last))]
    BY <1>13, <1>15, ParsedKey, Zenon DEF front, newf, last
  <2>9. QED
    BY <2>3, <2>7, <2>8, Zenon DEF new
<1>16. QED
  BY <1>14, <1>15

(* The table reads as before.                                               *)
LEMMA TableSame ==
    ASSUME NEW lines \in Seq(DocLine), NEW key \in DocKeys, NEW text \in DocTexts
    PROVE  StateMetrics(Updated(lines, key, text)) = StateMetrics(lines)
<1> DEFINE new == Updated(lines, key, text)
<1>1. /\ DOMAIN new = DOMAIN lines
      /\ \A i \in DOMAIN lines :
           IF Matches(lines[i], key)
           THEN new[i].kind = "scalar" /\ new[i].key = key /\ new[i].text = text
           ELSE new[i] = lines[i]
  BY UpdatedLines
<1> HIDE DEF new
<1>2. /\ {i \in DOMAIN new : new[i].kind \in {"row done", "row open"}}
           = {i \in DOMAIN lines : lines[i].kind \in {"row done", "row open"}}
      /\ {i \in DOMAIN new : new[i].kind = "row done"}
           = {i \in DOMAIN lines : lines[i].kind = "row done"}
  BY <1>1 DEF Matches
<1>3. StateMetrics(new) = StateMetrics(lines)
  BY <1>2, Zenon DEF StateMetrics
<1>4. QED
  BY <1>3 DEF new

\* A document is edited once, after it was written.
DocInv ==
    /\ doc \in Seq(DocLine)
    /\ edited # NotEdited =>
         /\ edited.key \in DocKeys /\ edited.text \in DocTexts /\ edited.before \in Seq(DocLine)
         /\ \E i \in DOMAIN edited.before : Matches(edited.before[i], edited.key)
         /\ doc = Updated(edited.before, edited.key, edited.text)

(* state-update changes what is parsed of its own key and of nothing else,  *)
(* as far as no mark comes or goes, and the table below the front matter    *)
(* stays.                                                                   *)
LEMMA UpdateLocal ==
    DocInv => UpdateIsLocal
<1> SUFFICES ASSUME DocInv, edited # NotEdited PROVE UpdateIsLocal
  BY DEF UpdateIsLocal
<1> DEFINE lines == edited.before
           key   == edited.key
           text  == edited.text
<1>1. /\ key \in DocKeys /\ text \in DocTexts /\ lines \in Seq(DocLine)
      /\ doc = Updated(lines, key, text)
      /\ \E i \in DOMAIN lines : Matches(lines[i], key)
  BY DEF DocInv
<1> HIDE DEF lines, key, text
<1>2. InFront(lines, key) /\ (Markless(lines, key, text) \/ Ended(lines)) =>
        ParseFrontMatter(doc, key) = [text |-> AsRead(text), items |-> 0]
  BY <1>1, StaysInFront, OwnKeyReads
<1>3. \A k \in DocKeys \ {key} :
        Markless(lines, key, text) \/ (Ended(lines) /\ AllAbove(lines, k, key)) =>
            ParseFrontMatter(doc, k) = ParseFrontMatter(lines, k)
  BY <1>1, OtherKeySame, KeyAboveSame
<1>4. \A i \in DOMAIN doc : doc[i].kind = "nested" => doc[i] = lines[i]
  <2>1. /\ DOMAIN doc = DOMAIN lines
        /\ \A i \in DOMAIN lines :
             IF Matches(lines[i], key)
             THEN doc[i].kind = "scalar" /\ doc[i].key = key /\ doc[i].text = text
             ELSE doc[i] = lines[i]
    BY <1>1, UpdatedLines
  <2>2. QED
    BY <2>1
<1>5. StateMetrics(doc) = StateMetrics(lines)
  BY <1>1, TableSame
<1>6. QED
  BY <1>2, <1>3, <1>4, <1>5, Zenon DEF UpdateIsLocal, lines, key, text

(* A key that reads as something has a line in the front matter.            *)
LEMMA ReadIsInFront ==
    ASSUME NEW lines, NEW k, ParseFrontMatter(lines, k) # [text |-> "", items |-> 0]
    PROVE  InFront(lines, k)
<1>1. KeyLines(FrontMatter(lines), k) # {}
  BY ParsedKey, Zenon
<1>2. PICK j \in KeyLines(FrontMatter(lines), k) : TRUE
  BY <1>1
<1>3. QED
  BY <1>2, Zenon DEF KeyLines, InFront, Matches

(* A document that validate-state accepts is accepted after an update.      *)
LEMMA ValidKept ==
    DocInv => ValidStaysValid
<1> SUFFICES ASSUME DocInv, edited # NotEdited, ValidateState(edited.before),
                    Markless(edited.before, edited.key, edited.text),
                    edited.key = "status" => edited.text = "READY"
             PROVE  ValidateState(doc)
  BY DEF ValidStaysValid
<1> DEFINE lines == edited.before
           key   == edited.key
           text  == edited.text
           now(k) == ParseFrontMatter(doc, k)
           old(k) == ParseFrontMatter(lines, k)
<1>1. /\ key \in DocKeys /\ text \in DocTexts
      /\ InFront(lines, key) => now(key) = [text |-> text, items |-> 0]
      /\ \A k \in DocKeys \ {key} : now(k) = old(k)
      /\ text # ""
  <2>1. AsRead(text) = text
    BY Zenon DEF AsRead, Markless
  <2>2. QED
    BY <2>1, UpdateLocal, DocAssumption, Zenon DEF DocInv, UpdateIsLocal
<1>2. /\ old("status").items = 0 /\ old("status").text = "READY"
      /\ old("storyRange").text # "" \/ old("storyRange").items > 0
  BY Zenon DEF ValidateState
<1>3. key = "status" => text = "READY"
  OBVIOUS
<1> DEFINE blank == [text |-> "", items |-> 0]
<1>4. blank.text = "" /\ blank.items = 0
  OBVIOUS
<1>5. "status" \in DocKeys /\ "storyRange" \in DocKeys
  BY DocAssumption
<1>6. \A k : old(k) # blank => InFront(lines, k)
  BY ReadIsInFront
<1>7. old("status") # blank /\ old("storyRange") # blank
  <2> HIDE DEF blank, old
  <2>0. ~(0 > 0)
    OBVIOUS
  <2>1. ~(blank.items > 0)
    BY <1>4, <2>0, Zenon
  <2>2. "READY" # ""
    OBVIOUS
  <2>3. QED
    BY <1>2, <1>4, <2>1, <2>2, Zenon
<1> DEFINE set == [text |-> text, items |-> 0]
<1>8. set.text = text /\ set.items = 0
  OBVIOUS
<1> HIDE DEF lines, key, text, now, old, blank, set
<1>9. now(key) = set \/ (key # "status" /\ key # "storyRange")
  BY <1>1, <1>6, <1>7, Zenon DEF set
<1>10. now("status").items = 0 /\ now("status").text = "READY"
  <2>1. CASE key = "status"
    BY <1>3, <1>8, <1>9, <2>1
  <2>2. CASE key # "status"
    <3>1. now("status") = old("status")
      BY <1>1, <1>5, <2>2, Zenon
    <3>2. QED
      BY <1>2, <3>1, Zenon
  <2>3. QED
    BY <2>1, <2>2
<1>11. now("storyRange").text # "" \/ now("storyRange").items > 0
  <2>1. CASE key = "storyRange"
    BY <1>1, <1>8, <1>9, <2>1, Zenon
  <2>2. CASE key # "storyRange"
    <3>1. now("storyRange") = old("storyRange")
      BY <1>1, <1>5, <2>2, Zenon
    <3>2. QED
      BY <1>2, <3>1, Zenon
  <2>3. QED
    BY <2>1, <2>2
<1>12. QED
  BY <1>10, <1>11, Zenon DEF ValidateState, now

(* However a document is written and updated, an update touches its key     *)
(* alone, and a document validate-state accepts stays acceptable, unless a  *)
(* text with the mark comes or goes; that leaves the keys above it alone.   *)
THEOREM DocumentCorrect == DocSpec => []DocumentSurvives
<1>1. DocInit => DocInv
  BY EmptySeq DEF DocInit, DocInv
<1>2. DocInv /\ [DocNext]_docVars => DocInv'
  <2> SUFFICES ASSUME DocInv, [DocNext]_docVars PROVE DocInv'
    OBVIOUS
  <2>1. CASE UNCHANGED docVars
    BY <2>1 DEF docVars, DocInv, Updated, Matches
  <2>2. ASSUME NEW l \in DocLine, WriteLine(l) PROVE DocInv'
    <3>1. edited' = NotEdited /\ doc' = Append(doc, l)
      BY <2>2 DEF WriteLine
    <3>2. doc' \in Seq(DocLine)
      BY <3>1 DEF DocInv
    <3>3. QED
      BY <3>1, <3>2 DEF DocInv, NotEdited
  <2>3. ASSUME NEW k \in DocKeys, NEW t \in DocTexts, StateUpdate(k, t) PROVE DocInv'
    <3>1. doc' = Updated(doc, k, t) /\ edited' = [key |-> k, text |-> t, before |-> doc]
      BY <2>3 DEF StateUpdate
    <3>2. doc \in Seq(DocLine) /\ doc' \in Seq(DocLine)
      BY <3>1, UpdatedLines DEF DocInv
    <3>3. edited'.key = k /\ edited'.text = t /\ edited'.before = doc
      BY <3>1
    <3>4. \E i \in DOMAIN doc : Matches(doc[i], k)
      BY <2>3 DEF StateUpdate
    <3>5. QED
      BY <3>1, <3>2, <3>3, <3>4 DEF DocInv, Updated, Matches
  <2>4. QED
    BY <2>1, <2>2, <2>3 DEF DocNext
<1>3. DocInv => DocumentSurvives
  BY UpdateLocal, ValidKept DEF DocumentSurvives
<1>4. QED
  BY <1>1, <1>2, <1>3, PTL DEF DocSpec

-----------------------------------------------------------------------------
(* Story keys                                                               *)

FirstIn(T) == CHOOSE i \in T : \A j \in T : i <= j

(* The first of some positions is one of them.                              *)
LEMMA FirstIsLeast ==
    ASSUME NEW n \in Nat, NEW T, T \subseteq 1 .. n, T # {}
    PROVE  FirstIn(T) \in T /\ \A x \in T : FirstIn(T) <= x
<1>1. T \subseteq Nat
  OBVIOUS
<1>2. \E i \in T : \A j \in T : i <= j
  BY <1>1, LeastNat
<1>3. QED
  BY <1>2 DEF FirstIn

\* The lines of one spelling, and those of a story with a slug.
ExactAt(v) == {i \in DOMAIN book.sprint : book.sprint[i].key = v}
SluggedAt(n) == {i \in DOMAIN book.sprint : book.sprint[i].key.form = "key" /\ book.sprint[i].key.num = n}
SlugsOf(n) == {f[2] : f \in {g \in book.files : g[1] = n}}
ExactLine(v) == book.sprint[FirstIn(ExactAt(v))]
SluggedLine(n) == book.sprint[FirstIn(SluggedAt(n))]

KeysTypes ==
    /\ book.sprint \in Seq(SprintLine) /\ book.files \subseteq StoryFile /\ book.range \subseteq Nums
    /\ book.deps \in [Nums -> SUBSET Mention]

(* What sprint-status get and check-epic read, in these terms.              *)
LEMMA GetLine ==
    ASSUME NEW v
    PROVE  SprintStatusGet(v) =
             IF ExactAt(v) # {} THEN <<ExactLine(v)>>
             ELSE IF SluggedAt(v.num) # {} THEN <<SluggedLine(v.num)>> ELSE <<>>
  BY DEF SprintStatusGet, First, FirstIn, ExactAt, SluggedAt, ExactLine, SluggedLine

(* A result of one line holds that line.                                    *)
LEMMA OneLine ==
    ASSUME NEW l
    PROVE  <<l>> # <<>> /\ <<l>>[1] = l
  OBVIOUS

(* A spelling counts as done by the first line of exactly that key, by the  *)
(* first line of the story with a slug if there is none, or not at all.     *)
LEMMA DoneLine ==
    ASSUME NEW v
    PROVE  /\ ExactAt(v) # {} => (Done(v) <=> ExactLine(v).done)
           /\ ExactAt(v) = {} /\ SluggedAt(v.num) # {} => (Done(v) <=> SluggedLine(v.num).done)
           /\ ExactAt(v) = {} /\ SluggedAt(v.num) = {} => ~Done(v)
<1>1. CASE ExactAt(v) # {}
  <2>1. SprintStatusGet(v) = <<ExactLine(v)>>
    BY <1>1, GetLine, Zenon
  <2>2. QED
    BY <1>1, <2>1, OneLine, Zenon DEF Done
<1>2. CASE ExactAt(v) = {} /\ SluggedAt(v.num) # {}
  <2>1. SprintStatusGet(v) = <<SluggedLine(v.num)>>
    BY <1>2, GetLine, Zenon
  <2>2. QED
    BY <1>2, <2>1, OneLine, Zenon DEF Done
<1>3. CASE ExactAt(v) = {} /\ SluggedAt(v.num) = {}
  <2>1. SprintStatusGet(v) = <<>>
    BY <1>3, GetLine, Zenon
  <2>2. QED
    BY <1>3, <2>1, Zenon DEF Done
<1>4. QED
  BY <1>1, <1>2, <1>3

(* check-epic reads the first line of exactly that key.                     *)
LEMMA FirstDoneLine ==
    ASSUME NEW k, ExactAt(k) # {}
    PROVE  FirstDone(k) = ExactLine(k).done
  BY DEF FirstDone, First, FirstIn, ExactAt, ExactLine

(* A line that is read is a line of the file, and what is read first is     *)
(* what the file says first.                                                *)
LEMMA LinesRead ==
    ASSUME KeysTypes
    PROVE  /\ DOMAIN book.sprint = 1 .. Len(book.sprint) /\ Len(book.sprint) \in Nat
           /\ \A i \in DOMAIN book.sprint :
                /\ book.sprint[i] \in SprintLine /\ book.sprint[i].key \in Spelling
                /\ book.sprint[i].done \in BOOLEAN
           /\ \A v : ExactAt(v) # {} =>
                /\ FirstIn(ExactAt(v)) \in ExactAt(v)
                /\ \A x \in ExactAt(v) : FirstIn(ExactAt(v)) <= x
           /\ \A n : SluggedAt(n) # {} =>
                /\ FirstIn(SluggedAt(n)) \in SluggedAt(n)
                /\ \A x \in SluggedAt(n) : FirstIn(SluggedAt(n)) <= x
<1>1. DOMAIN book.sprint = 1 .. Len(book.sprint) /\ Len(book.sprint) \in Nat
  BY LenProperties DEF KeysTypes
<1>2. \A i \in DOMAIN book.sprint : book.sprint[i] \in SprintLine
  BY <1>1, ElementOfSeq DEF KeysTypes
<1>3. \A i \in DOMAIN book.sprint : book.sprint[i].key \in Spelling /\ book.sprint[i].done \in BOOLEAN
  BY <1>2 DEF SprintLine
<1>4. ASSUME NEW v, ExactAt(v) # {}
      PROVE  FirstIn(ExactAt(v)) \in ExactAt(v) /\ \A x \in ExactAt(v) : FirstIn(ExactAt(v)) <= x
  <2>1. ExactAt(v) \subseteq 1 .. Len(book.sprint)
    BY <1>1 DEF ExactAt
  <2>2. QED
    BY <1>1, <1>4, <2>1, FirstIsLeast
<1>5. ASSUME NEW n, SluggedAt(n) # {}
      PROVE  FirstIn(SluggedAt(n)) \in SluggedAt(n) /\ \A x \in SluggedAt(n) : FirstIn(SluggedAt(n)) <= x
  <2>1. SluggedAt(n) \subseteq 1 .. Len(book.sprint)
    BY <1>1 DEF SluggedAt
  <2>2. QED
    BY <1>1, <1>5, <2>1, FirstIsLeast
<1>6. QED
  BY <1>1, <1>2, <1>3, <1>4, <1>5

(* The key of a story, and normalising it again.                            *)
LEMMA NormalKey ==
    ASSUME NEW v
    PROVE  NormalizeStoryKey(v) =
             [id |-> Id(v.num), prefix |-> Prefix(v.num),
              key |-> IF v.form = "key" THEN v
                      ELSE IF SlugsOf(v.num) # {}
                      THEN [form |-> "key", num |-> v.num, slug |-> FirstIn(SlugsOf(v.num))]
                      ELSE IF SluggedAt(v.num) # {} THEN SluggedLine(v.num).key ELSE Prefix(v.num)]
<1> DEFINE line == First(book.sprint, LAMBDA l : l.key.form = "key" /\ l.key.num = v.num)
<1>1. line = IF SluggedAt(v.num) = {} THEN <<>> ELSE <<SluggedLine(v.num)>>
  BY DEF First, FirstIn, SluggedAt, SluggedLine
<1>2. NormalizeStoryKey(v) =
        [id |-> Id(v.num), prefix |-> Prefix(v.num),
         key |-> IF v.form = "key" THEN v
                 ELSE IF SlugsOf(v.num) # {}
                 THEN [form |-> "key", num |-> v.num, slug |-> FirstIn(SlugsOf(v.num))]
                 ELSE IF line # <<>> THEN line[1].key ELSE Prefix(v.num)]
  BY Zenon DEF NormalizeStoryKey, SlugsOf, FirstIn
<1> HIDE DEF line
<1>3. CASE SluggedAt(v.num) = {}
  <2>1. line = <<>>
    BY <1>1, <1>3, Zenon
  <2>2. QED
    BY <1>2, <1>3, <2>1, Zenon
<1>4. CASE SluggedAt(v.num) # {}
  <2>1. line # <<>> /\ line[1] = SluggedLine(v.num)
    BY <1>1, <1>4, OneLine, Zenon
  <2>2. QED
    BY <1>2, <1>4, <2>1, Zenon
<1>5. QED
  BY <1>3, <1>4

(* Normalising a key that normalisation gave changes nothing.               *)
LEMMA NormalAgain ==
    ASSUME KeysTypes, NEW v \in Spelling
    PROVE  NormalizeStoryKey(NormalizeStoryKey(v).key) = NormalizeStoryKey(v)
<1> DEFINE key == NormalizeStoryKey(v).key
           slugged == [form |-> "key", num |-> v.num, slug |-> FirstIn(SlugsOf(v.num))]
<1>1. /\ slugged.form = "key" /\ slugged.num = v.num
      /\ Prefix(v.num).form = "prefix" /\ Prefix(v.num).num = v.num
  BY DEF Prefix
<1>2. key = IF v.form = "key" THEN v
            ELSE IF SlugsOf(v.num) # {} THEN slugged
            ELSE IF SluggedAt(v.num) # {} THEN SluggedLine(v.num).key ELSE Prefix(v.num)
  BY NormalKey
<1> HIDE DEF slugged
<1>3. key.num = v.num
  <2>1. SluggedAt(v.num) # {} => SluggedLine(v.num).key.num = v.num
    BY LinesRead DEF SluggedAt, SluggedLine
  <2>2. QED
    BY <1>1, <1>2, <2>1
<1>4. \/ key.form = "key"
      \/ key = Prefix(v.num) /\ v.form # "key" /\ SlugsOf(v.num) = {} /\ SluggedAt(v.num) = {}
  <2>1. SluggedAt(v.num) # {} => SluggedLine(v.num).key.form = "key"
    BY LinesRead DEF SluggedAt, SluggedLine
  <2>2. QED
    BY <1>1, <1>2, <2>1
<1>5. NormalizeStoryKey(v) = [id |-> Id(v.num), prefix |-> Prefix(v.num), key |-> key]
  BY NormalKey, <1>2 DEF slugged
<1> HIDE DEF key
<1>6. CASE key.form = "key"
  <2>1. NormalizeStoryKey(key) = [id |-> Id(key.num), prefix |-> Prefix(key.num), key |-> key]
    BY <1>6, NormalKey, Zenon
  <2>2. QED
    BY <1>3, <1>5, <2>1, Zenon DEF key
<1>7. CASE key.form # "key"
  <2>1. NormalizeStoryKey(key) = [id |-> Id(key.num), prefix |-> Prefix(key.num), key |-> Prefix(key.num)]
    BY <1>3, <1>4, <1>7, NormalKey, Zenon
  <2>2. key = Prefix(v.num)
    BY <1>4, <1>7, Zenon
  <2>3. QED
    BY <1>3, <1>5, <2>1, <2>2, Zenon DEF key
<1>8. QED
  BY <1>6, <1>7

(* The story files give the key the slug that story-file-status reports.    *)
LEMMA FilesAgree ==
    ASSUME KeysTypes, NEW v \in Spelling, v.form # "key", StoryFileStatus(v) # <<>>
    PROVE  NormalizeStoryKey(v).key = [form |-> "key", num |-> v.num, slug |-> StoryFileStatus(v)[1]]
<1> DEFINE slugs == {s \in Slugs : <<v.num, s>> \in book.files}
<1>1. slugs = SlugsOf(v.num)
  BY DEF KeysTypes, StoryFile, SlugsOf
<1>2. SlugsOf(v.num) # {} /\ StoryFileStatus(v) = <<FirstIn(SlugsOf(v.num))>>
  BY <1>1 DEF StoryFileStatus, FirstIn
<1>3. StoryFileStatus(v)[1] = FirstIn(SlugsOf(v.num))
  BY <1>2
<1>4. QED
  BY <1>2, <1>3, NormalKey

(* A story counts as done only by a line of its own.                        *)
LEMMA ReadyHasLine ==
    ASSUME KeysTypes, NEW v \in Spelling, CommitReady(v, TRUE)
    PROVE  \E i \in DOMAIN book.sprint : book.sprint[i].key.num = v.num /\ book.sprint[i].done
<1>1. Done(v)
  BY DEF CommitReady
<1>2. CASE ExactAt(v) # {}
  <2>1. ExactLine(v).done
    BY <1>1, <1>2, DoneLine
  <2>2. FirstIn(ExactAt(v)) \in ExactAt(v)
    BY <1>2, LinesRead
  <2>3. QED
    BY <2>1, <2>2 DEF ExactAt, ExactLine
<1>3. CASE ExactAt(v) = {}
  <2>1. SluggedAt(v.num) # {} /\ SluggedLine(v.num).done
    BY <1>1, <1>3, DoneLine
  <2>2. FirstIn(SluggedAt(v.num)) \in SluggedAt(v.num)
    BY <2>1, LinesRead
  <2>3. QED
    BY <2>1, <2>2, Zenon DEF SluggedAt, SluggedLine
<1>4. QED
  BY <1>2, <1>3

(* If check-epic calls every spelling done, so does sprint-status get for   *)
(* a story that is spelled with a dot or has a slug.                        *)
LEMMA EpicDone ==
    ASSUME KeysTypes, AllStoriesDone, NEW k \in SprintStatusEpic, k.form # "prefix"
    PROVE  Done(Id(k.num))
<1>1. \A i \in DOMAIN book.sprint : ExactAt(book.sprint[i].key) # {} /\ ExactLine(book.sprint[i].key).done
  <2>1. ASSUME NEW i \in DOMAIN book.sprint
        PROVE  ExactAt(book.sprint[i].key) # {} /\ ExactLine(book.sprint[i].key).done
    <3>1. book.sprint[i].key \in SprintStatusEpic /\ ExactAt(book.sprint[i].key) # {}
      BY DEF SprintStatusEpic, ExactAt
    <3>2. QED
      BY <3>1, FirstDoneLine DEF AllStoriesDone
  <2>2. QED
    BY <2>1
<1>2. CASE ExactAt(Id(k.num)) # {}
  <2>1. ExactLine(Id(k.num)).done
    BY <1>1, <1>2, LinesRead DEF ExactAt
  <2>2. QED
    BY <1>2, <2>1, DoneLine
<1>3. CASE ExactAt(Id(k.num)) = {}
  <2>1. PICK i \in DOMAIN book.sprint : k = book.sprint[i].key
    BY DEF SprintStatusEpic
  <2>2. k \in Spelling /\ k # Id(k.num)
    BY <1>3, <2>1, LinesRead DEF ExactAt
  <2>3. k.form = "key"
    BY <2>2 DEF Spelling, Id
  <2>4. i \in SluggedAt(k.num)
    BY <2>1, <2>3 DEF SluggedAt
  <2> DEFINE f == FirstIn(SluggedAt(k.num))
             l == book.sprint[f].key
  <2>5. f \in SluggedAt(k.num) /\ \A x \in SluggedAt(k.num) : f <= x
    BY <2>4, LinesRead
  <2>6. f \in ExactAt(l) /\ ExactAt(l) \subseteq SluggedAt(k.num)
    BY <2>5, Zenon DEF ExactAt, SluggedAt
  <2> HIDE DEF f
  <2> DEFINE e == FirstIn(ExactAt(l))
  <2>7. e \in ExactAt(l) /\ e <= f
    BY <2>6, LinesRead
  <2>8. f <= e
    BY <2>5, <2>6, <2>7
  <2>9. e = f
    <3>1. e \in Nat /\ f \in Nat
      BY <2>6, <2>7, LinesRead DEF ExactAt
    <3> HIDE DEF e
    <3>2. QED
      BY <2>7, <2>8, <3>1
  <2>10. f \in DOMAIN book.sprint
    BY <2>6 DEF ExactAt
  <2>11. book.sprint[f].done
    BY <1>1, <2>9, <2>10 DEF ExactLine
  <2>12. Id(k.num).num = k.num
    BY DEF Id
  <2>13. Done(Id(k.num)) <=> SluggedLine(k.num).done
    BY <1>3, <2>4, <2>12, DoneLine
  <2>14. QED
    BY <2>11, <2>13 DEF SluggedLine, f
<1>4. QED
  BY <1>2, <1>3

(* A story sprint-compare calls complete is done.                           *)
LEMMA CompareDone ==
    ASSUME NEW n \in Nums \ EpicIncomplete(Nums)
    PROVE  Done(Id(n))
<1>1. ExactAt(Id(n)) # {} /\ ExactLine(Id(n)).done
  BY DEF EpicIncomplete, First, FirstIn, ExactAt, ExactLine
<1>2. QED
  BY <1>1, DoneLine

(* check-epic-complete names the last of the stories get-epic-stories lists.*)
LEMMA LastCorrect ==
    ASSUME KeysTypes
    PROVE  LastIsLast
<1> SUFFICES ASSUME NEW n \in Nums
             PROVE  /\ IsLastStory(n) => n \in EpicStories /\ \A m \in EpicStories : m <= n
                    /\ book.state /\ n \in book.range /\ (\A m \in book.range : m <= n) => IsLastStory(n)
  BY DEF LastIsLast
<1>1. \A m : Id(m).num = m /\ Id(m).form = "id"
  BY DEF Id
<1>2. ASSUME IsLastStory(n)
      PROVE  n \in EpicStories /\ \A m \in EpicStories : m <= n
  <2>1. CASE book.state
    <3> DEFINE stories == {Id(m) : m \in book.range}
    <3>1. stories # {} /\ \E k \in LastIn(stories) : k.num = n
      BY <1>2, <2>1 DEF IsLastStory
    <3>2. book.range # {} /\ EpicStories = book.range
      BY <2>1, <3>1 DEF EpicStories
    <3>3. PICK k \in stories : k.num = n /\ \A x \in stories : x.num <= k.num
      BY <3>1 DEF LastIn
    <3>4. n \in book.range
      BY <1>1, <3>3
    <3>5. \A m \in book.range : m <= n
      BY <1>1, <3>3
    <3>6. QED
      BY <3>2, <3>4, <3>5
  <2>2. CASE ~book.state
    <3>1. SprintStatusEpic # {} /\ \E k \in LastIn(SprintStatusEpic) : k.num = n
      BY <1>2, <2>2 DEF IsLastStory
    <3>2. EpicStories = {k.num : k \in SprintStatusEpic}
      BY <2>2, <3>1 DEF EpicStories
    <3>3. PICK k \in SprintStatusEpic : k.num = n /\ \A x \in SprintStatusEpic : x.num <= k.num
      BY <3>1 DEF LastIn
    <3>4. QED
      BY <3>2, <3>3
  <2>3. QED
    BY <2>1, <2>2
<1>3. ASSUME book.state, n \in book.range, \A m \in book.range : m <= n
      PROVE  IsLastStory(n)
  <2> DEFINE stories == {Id(m) : m \in book.range}
  <2>1. Id(n) \in stories /\ \A x \in stories : x.num <= Id(n).num
    BY <1>1, <1>3
  <2>2. Id(n) \in LastIn(stories) /\ Id(n).num = n /\ Id(n).form # "key"
    BY <1>1, <2>1 DEF LastIn
  <2>3. QED
    BY <1>3, <2>1, <2>2 DEF IsLastStory
<1>4. QED
  BY <1>2, <1>3

(* Whatever names a story in its dependencies makes it blocking.            *)
LEMMA BlockingCorrect ==
    ASSUME KeysTypes
    PROVE  BlockingIsSafe
<1> SUFFICES ASSUME NEW n \in Nums, NEW m \in Nums, NEW d \in book.deps[m], d.num = n
             PROVE  Blocking(n)
  BY DEF BlockingIsSafe
<1>1. <<n, d.num>> \in Within
  BY KeysAssumption
<1>2. m \in Dependents(n)
  BY <1>1 DEF Dependents
<1>3. QED
  BY <1>2 DEF Blocking

(* For every project, with any stories, slugs, sprint file, story files,    *)
(* state document and epic file, the readers of story keys agree.           *)
THEOREM KeysCorrect == KeysSpec => []KeysAgree
<1>1. KeysInit => KeysTypes
  <2> SUFFICES ASSUME book = NoBook PROVE KeysTypes
    BY DEF KeysInit
  <2>1. /\ book.sprint = <<>> /\ book.files = {} /\ book.range = {}
        /\ book.deps = [n \in Nums |-> {}]
    BY DEF NoBook
  <2>2. book.sprint \in Seq(SprintLine)
    BY <2>1, EmptySeq
  <2>3. QED
    BY <2>1, <2>2 DEF KeysTypes
<1>2. KeysTypes /\ [KeysNext]_keyVars => KeysTypes'
  <2> SUFFICES ASSUME KeysTypes, [KeysNext]_keyVars PROVE KeysTypes'
    OBVIOUS
  <2>1. <<>> \in Seq(SprintLine)
    BY EmptySeq
  <2>2. CASE UNCHANGED keyVars
    BY <2>2 DEF keyVars, KeysTypes
  <2>3. CASE AskStatus
    <3>1. PICK n \in 0 .. MaxLines : \E s \in [1 .. n -> SprintLine], f \in SUBSET StoryFile :
            book' = [NoBook EXCEPT !.pc = "status", !.sprint = s, !.files = f]
      BY <2>3 DEF AskStatus
    <3>2. PICK s \in [1 .. n -> SprintLine], f \in SUBSET StoryFile :
            book' = [NoBook EXCEPT !.pc = "status", !.sprint = s, !.files = f]
      BY <3>1
    <3>3. /\ book'.sprint = s /\ book'.files = f /\ book'.range = {}
          /\ book'.deps = [x \in Nums |-> {}]
      BY <3>2 DEF NoBook
    <3>4. s \in Seq(SprintLine)
      BY KeysAssumption
    <3>5. QED
      BY <3>3, <3>4 DEF KeysTypes
  <2>4. CASE AskLast
    <3>1. PICK n \in 0 .. MaxLines :
            \E s \in [1 .. n -> SprintLine], st, e \in BOOLEAN, r \in SUBSET Nums :
              book' = [NoBook EXCEPT !.pc = "last", !.sprint = s, !.state = st, !.range = r, !.epic = e]
      BY <2>4 DEF AskLast
    <3>2. PICK s \in [1 .. n -> SprintLine], st \in BOOLEAN, e \in BOOLEAN, r \in SUBSET Nums :
            book' = [NoBook EXCEPT !.pc = "last", !.sprint = s, !.state = st, !.range = r, !.epic = e]
      BY <3>1
    <3>3. /\ book'.sprint = s /\ book'.files = {} /\ book'.range = r
          /\ book'.deps = [x \in Nums |-> {}]
      BY <3>2 DEF NoBook
    <3>4. s \in Seq(SprintLine)
      BY KeysAssumption
    <3>5. QED
      BY <3>3, <3>4 DEF KeysTypes
  <2>5. CASE AskBlocking
    <3>1. PICK e \in BOOLEAN, d \in [Nums -> {{}} \cup {{x} : x \in Mention}] :
            book' = [NoBook EXCEPT !.pc = "blocking", !.epic = e, !.deps = d]
      BY <2>5 DEF AskBlocking
    <3>2. book'.files = {} /\ book'.range = {} /\ book'.deps = d
      BY <3>1 DEF NoBook
    <3>3. book'.sprint \in Seq(SprintLine)
      BY <2>1, <3>1 DEF NoBook
    <3>4. d \in [Nums -> SUBSET Mention]
      OBVIOUS
    <3>5. QED
      BY <3>2, <3>3, <3>4 DEF KeysTypes
  <2>6. QED
    BY <2>2, <2>3, <2>4, <2>5 DEF KeysNext
<1>3. KeysTypes => KeysAgree
  <2> SUFFICES ASSUME KeysTypes PROVE KeysAgree
    OBVIOUS
  <2>1. StatusAgrees
    BY NormalAgain, FilesAgree, ReadyHasLine, EpicDone, CompareDone, Zenon DEF StatusAgrees
  <2>2. QED
    BY <2>1, LastCorrect, BlockingCorrect DEF KeysAgree
<1>4. QED
  BY <1>1, <1>2, <1>3, PTL DEF KeysSpec

-----------------------------------------------------------------------------
(* Verdicts on a step                                                       *)

\* What a value of a parsed answer may be where the schema names a rule.
FitsRule(x, r) ==
    CASE r = "integer" -> x \notin Leaves \ {"int"}
      [] r = "true|false" -> x = "bool"
      [] r = "path or null" -> x \in Leaves \ {"int", "bool", "blank"}
      [] r = "a|b" -> x = "a"
      [] r = "text" -> x \in Leaves \ {"int", "bool", "blank", "null"}
      [] OTHER -> FALSE

(* The parser's rules let through nothing else.                             *)
LEMMA RulesFit == ASSUME NEW x, NEW r, MatchesRule(x, r) PROVE FitsRule(x, r)
  BY DEF MatchesRule, FitsRule, Leaves

(* A table of the schema or the payload, and a text.                        *)
LEMMA TablesAre ==
    /\ \A x : Leaf(x).leaf = TRUE /\ Leaf(x).value = x
    /\ \A f : Table(f).leaf = FALSE /\ Table(f).keys = f
  BY DEF Leaf, Table

\* AnswerIsUsable with its rules and its schema named.
FitsSchema(p, s) ==
    \A k \in DOMAIN s :
      IF s[k].leaf THEN p[k].leaf /\ FitsRule(p[k].value, s[k].value)
      ELSE ~p[k].leaf /\ p[k].keys["in"].leaf
           /\ FitsRule(p[k].keys["in"].value, s[k].keys["in"].value)

UsableAnswer ==
    case.pc = "parsed" /\ case.verdict = "ok" =>
      /\ case.ask.agent = "answered" /\ case.ask.output = "there"
      /\ (DOMAIN case.ask.schema.keys) \cup case.ask.required
           \subseteq DOMAIN case.ask.payload.keys
      /\ FitsSchema(case.ask.payload.keys, case.ask.schema.keys)

(* An answer of which this holds is usable, in the words of the property.   *)
LEMMA UsableIs == UsableAnswer => AnswerIsUsable
  BY Zenon DEF UsableAnswer, AnswerIsUsable, FitsSchema, FitsRule

(* An answer that is passed on has every key, at both depths, as its rule   *)
(* wants it.                                                                *)
LEMMA ParsedUsable == AskParse => case'.pc = "parsed" /\ AnswerIsUsable'
<1> SUFFICES ASSUME AskParse PROVE case'.pc = "parsed" /\ AnswerIsUsable'
  OBVIOUS
<1>1. PICK o \in {"missing", "there"}, c \in {"invalid", "loaded"},
           a \in {"timed out", "failed", "no json", "answered"},
           r \in SUBSET SchemaKeys, rule \in Rules, deep \in Rules, s \in SUBSET SchemaKeys,
           v \in Leaves, w \in Leaves, shape \in {"leaf", "flat", "nested"} :
             LET schema == Table([k \in SchemaKeys |->
                                    IF k \in s THEN Table([x \in {"in"} |-> Leaf(deep)])
                                    ELSE Leaf(rule)])
                 payload == CASE shape = "leaf" -> Leaf(v)
                              [] shape = "flat" -> Table([k \in SchemaKeys |-> Leaf(v)])
                              [] OTHER -> Table([k \in s \cup r |->
                                            IF k \in s THEN Table([x \in {"in"} |-> Leaf(w)])
                                            ELSE Leaf(v)])
                 q == [output |-> o, contract |-> c, agent |-> a, required |-> r,
                       schema |-> schema, payload |-> payload]
             IN  case' = [pc |-> "parsed", ask |-> q, verdict |-> ParseOutput(q)]
  BY Zenon DEF AskParse
<1> DEFINE payload == CASE shape = "leaf" -> Leaf(v)
                        [] shape = "flat" -> Table([k \in SchemaKeys |-> Leaf(v)])
                        [] OTHER -> Table([k \in s \cup r |->
                                      IF k \in s THEN Table([x \in {"in"} |-> Leaf(w)])
                                      ELSE Leaf(v)])
           deeper == [x \in {"in"} |-> Leaf(deep)]
           inner == Table(deeper)
           outer == [k \in SchemaKeys |-> IF k \in s THEN inner ELSE Leaf(rule)]
           schema == Table(outer)
           q == [output |-> o, contract |-> c, agent |-> a, required |-> r,
                 schema |-> schema, payload |-> payload]
<1>2. case' = [pc |-> "parsed", ask |-> q, verdict |-> ParseOutput(q)]
  BY <1>1, Zenon
<1> HIDE DEF payload
<1>3. case'.ask = q /\ case'.verdict = ParseOutput(q) /\ case'.pc = "parsed"
  BY <1>2
<1>4. /\ q.output = o /\ q.contract = c /\ q.agent = a /\ q.required = r /\ q.schema = schema
      /\ q.payload = payload
  OBVIOUS
<1>5. schema.leaf = FALSE /\ schema.keys = outer /\ DOMAIN outer = SchemaKeys
  BY TablesAre
<1>6. /\ \A k \in s : outer[k] = inner
      /\ \A k \in SchemaKeys \ s : outer[k] = Leaf(rule)
  OBVIOUS
<1>7. inner.leaf = FALSE /\ DOMAIN inner.keys = {"in"} /\ inner.keys["in"] = Leaf(deep)
  <2>1. inner.leaf = FALSE /\ inner.keys = deeper
    BY TablesAre, Zenon
  <2>2. DOMAIN deeper = {"in"} /\ deeper["in"] = Leaf(deep)
    OBVIOUS
  <2>3. QED
    BY <2>1, <2>2, Zenon
<1>8. case'.pc = "parsed"
  BY <1>3
<1> DEFINE verdict == ParseOutput(q)
<1> HIDE DEF q, schema, outer, inner, deeper, verdict
<1>9. /\ case'.ask.schema.keys = outer /\ case'.ask.payload.keys = payload.keys
       /\ case'.ask.agent = a /\ case'.ask.output = o /\ case'.ask.required = r
       /\ case'.verdict = verdict
  BY <1>3, <1>4, <1>5, Zenon DEF verdict
<1>10. SUFFICES ASSUME verdict = "ok"
               PROVE  /\ a = "answered" /\ o = "there"
                      /\ SchemaKeys \cup r \subseteq DOMAIN payload.keys
                      /\ FitsSchema(payload.keys, outer)
  <2> SUFFICES ASSUME case'.verdict = "ok"
               PROVE  /\ case'.ask.agent = "answered" /\ case'.ask.output = "there"
                      /\ (DOMAIN outer) \cup case'.ask.required \subseteq DOMAIN payload.keys
                      /\ FitsSchema(payload.keys, outer)
    <3>1. (UsableAnswer => AnswerIsUsable)'
      BY UsableIs, PTL
    <3>2. UsableAnswer' => AnswerIsUsable'
      BY <3>1
    <3>3. QED
      BY <1>8, <1>9, <3>2, Zenon DEF UsableAnswer
  <2>1. verdict = "ok"
    BY <1>9
  <2>2. QED
    BY <1>5, <1>10, <1>9, <2>1, Zenon
<1>11. /\ a = "answered" /\ o = "there" /\ ~payload.leaf /\ r \subseteq DOMAIN payload.keys
      /\ MatchesSchema(payload, schema)
  <2>1. o # "missing" /\ c # "invalid"
    BY <1>4, <1>10 DEF ParseOutput, verdict
  <2>2. a = "answered"
    BY <1>4, <1>10, <2>1 DEF ParseOutput, verdict
  <2>3. ~payload.leaf /\ r \subseteq DOMAIN payload.keys /\ MatchesSchema(payload, schema)
    BY <1>4, <1>10, <2>1, <2>2 DEF ParseOutput, verdict
  <2>4. QED
    BY <2>1, <2>2, <2>3
<1>12. \A k \in SchemaKeys : k \in DOMAIN payload.keys /\ MatchesValue(payload.keys[k], outer[k])
  BY <1>5, <1>11, Zenon DEF MatchesSchema, MatchesLevel
<1>13. ASSUME NEW k \in SchemaKeys
       PROVE  IF outer[k].leaf
              THEN payload.keys[k].leaf /\ FitsRule(payload.keys[k].value, outer[k].value)
              ELSE /\ ~payload.keys[k].leaf /\ payload.keys[k].keys["in"].leaf
                   /\ FitsRule(payload.keys[k].keys["in"].value, outer[k].keys["in"].value)
  <2>1. CASE outer[k].leaf
    <3>1. payload.keys[k].leaf /\ MatchesRule(payload.keys[k].value, outer[k].value)
      BY <1>12, <2>1, Zenon DEF MatchesValue, MatchesLevel
    <3>2. QED
      BY <2>1, <3>1, RulesFit, Zenon
  <2>2. CASE ~outer[k].leaf
    <3>1. outer[k] = inner
      BY <1>6, <2>2, TablesAre
    <3>2. /\ ~payload.keys[k].leaf
          /\ MatchesText(payload.keys[k].keys["in"], outer[k].keys["in"])
      BY <1>7, <1>12, <2>2, <3>1 DEF MatchesValue, MatchesLevel
    <3>3. /\ payload.keys[k].keys["in"].leaf
          /\ MatchesRule(payload.keys[k].keys["in"].value, outer[k].keys["in"].value)
      BY <3>2, Zenon DEF MatchesText
    <3>4. QED
      BY <2>2, <3>2, <3>3, RulesFit, Zenon
  <2>3. QED
    BY <2>1, <2>2
<1>14. QED
  <2>1. FitsSchema(payload.keys, outer)
    BY <1>5, <1>13, Zenon DEF FitsSchema
  <2>2. QED
    BY <1>11, <1>12, <2>1

(* A blank status is in no contract, and neither is the status of a story   *)
(* that the sprint status does not name.                                    *)
LEMMA BlankKept == AskReview => case'.pc = "reviewed" /\ BlankNeverDone'
<1> SUFFICES ASSUME AskReview PROVE case'.pc = "reviewed" /\ BlankNeverDone'
  OBVIOUS
<1>1. PICK f \in Layer, i \in Layer, sp \in (StatusTexts \ {""}) \cup {"unknown"}, st \in StatusTexts :
             case' = [pc |-> "reviewed", sprint |-> sp, story |-> st, file |-> f, inline |-> i,
                      verdict |-> IF ReviewVerified(LoadReviewContract(f, i), sp, st)
                                  THEN "ok" ELSE "refused"]
  BY DEF AskReview
<1> DEFINE c == LoadReviewContract(f, i)
<1>2. c.done = IF i.done # {"absent"} THEN i.done
               ELSE IF f.done # {"absent"} THEN f.done ELSE {"done"}
  BY DEF LoadReviewContract, Default
<1>3. \A l \in Layer : l.done = {"absent"} \/ l.done \subseteq StatusTexts
  BY DEF Layer
<1>4. "unknown" \notin c.done
  BY <1>2, <1>3, VerdictAssumption
<1> HIDE DEF c
<1> DEFINE done == ReviewVerified(c, sp, st)
<1>5. done => sp # "unknown" \/ st # ""
  BY <1>4 DEF ReviewVerified, Sanitize
<1> HIDE DEF done
<1>6. /\ case'.pc = "reviewed" /\ case'.sprint = sp /\ case'.story = st
      /\ case'.verdict = IF done THEN "ok" ELSE "refused"
  BY <1>1 DEF c, done
<1>7. QED
  BY <1>6, <1>5 DEF BlankNeverDone

(* Whatever the verifiers answer, both commands take it for the same.       *)
LEMMA MonitorKept == AskVerified => case'.pc = "monitored" /\ MonitorAgrees'
<1> SUFFICES ASSUME AskVerified PROVE case'.pc = "monitored" /\ MonitorAgrees'
  OBVIOUS
<1>1. PICK c \in {"ok", "broken"}, v \in Verifiers \cup {"", "unknown"}, k \in BOOLEAN, o \in Outcomes :
             /\ ~k => o # "verified"
             /\ case' = [pc |-> "monitored", key |-> k, monitor |-> MonitorVerdict(c, v, k, o),
                         verdict |-> StepAnswer(c, v, o)]
  BY DEF AskVerified
<1>2. MonitorVerdict(c, v, k, o) = "completed" <=> StepAnswer(c, v, o) = "verified"
  <2>1. CASE c # "ok" \/ v = ""
    BY <2>1 DEF MonitorVerdict, StepAnswer
  <2>2. CASE c = "ok" /\ v = "session_exit"
    BY <2>2 DEF MonitorVerdict, StepAnswer, VerifierOutcome
  <2>3. CASE c = "ok" /\ v \in Verifiers \ {"session_exit"}
    <3>1. VerifierOutcome(v, o) = o
      BY <2>3 DEF VerifierOutcome
    <3>2. v # ""
      BY <2>3 DEF Verifiers
    <3>3. MonitorVerdict(c, v, k, o) = "completed" <=> k /\ o = "verified"
      BY <2>3, <3>1, <3>2 DEF MonitorVerdict
    <3>4. StepAnswer(c, v, o) = "verified" <=> o = "verified"
      BY <2>3, <3>1, <3>2 DEF StepAnswer
    <3>5. QED
      BY <1>1, <3>3, <3>4, Zenon
  <2>4. CASE c = "ok" /\ v = "unknown"
    BY <2>4 DEF MonitorVerdict, StepAnswer, VerifierOutcome, Verifiers
  <2>5. QED
    BY <2>1, <2>2, <2>3, <2>4
<1> DEFINE m == MonitorVerdict(c, v, k, o)
           a == StepAnswer(c, v, o)
<1> HIDE DEF m, a
<1>3. case' = [pc |-> "monitored", key |-> k, monitor |-> m, verdict |-> a]
  BY <1>1 DEF m, a
<1>4. case'.pc = "monitored" /\ case'.monitor = m /\ case'.verdict = a
  BY <1>3
<1>5. QED
  BY <1>2, <1>4, Zenon DEF MonitorAgrees, m, a

Counts == 0 .. MaxFiles   \* numbers of story files

(* Counts are numbers.                                                      *)
LEMMA CountsAre == Counts \subseteq Nat
<1>1. MaxFiles \in Nat
  BY VerdictAssumption
<1>2. QED
  BY <1>1, SMT DEF Counts
(* What a difference of two counts says.                                    *)
LEMMA Created ==
    \A x, y, z \in Nat : x - y = z => x >= y /\ x = y + z
  OBVIOUS

\* What is known of a count between the commands.
VerdictInv ==
    /\ case.pc \in {"idle", "parsed", "reviewed", "monitored", "session", "counted", "checked"}
    /\ case.pc = "session" => case \in [pc : {"session"}, before : Counts, count : Counts]
    /\ case.pc = "counted" =>
         case \in [pc : {"counted"}, before : Counts, after : Counts, count : Counts]
    /\ VerdictIsEarned

(* Every command and every change of the files keeps the verdicts earned.   *)
LEMMA VerdictKept == VerdictInv /\ [VerdictNext]_verdictVars => VerdictInv'
<1> SUFFICES ASSUME VerdictInv, [VerdictNext]_verdictVars PROVE VerdictInv'
  OBVIOUS
<1>1. CASE AskParse
  <2>1. case'.pc = "parsed" /\ AnswerIsUsable'
    BY <1>1, ParsedUsable
  <2>2. QED
    BY <2>1 DEF VerdictInv, VerdictIsEarned, BlankNeverDone, ProceedIsEarned, MonitorAgrees
<1>2. CASE AskReview
  <2>1. case'.pc = "reviewed" /\ BlankNeverDone'
    BY <1>2, BlankKept
  <2>2. QED
    BY <2>1, Zenon DEF VerdictInv, VerdictIsEarned, AnswerIsUsable, ProceedIsEarned, MonitorAgrees
<1>3. CASE AskVerified
  <2>1. case'.pc = "monitored" /\ MonitorAgrees'
    BY <1>3, MonitorKept
  <2>2. QED
    BY <2>1, Zenon DEF VerdictInv, VerdictIsEarned, AnswerIsUsable, ProceedIsEarned, BlankNeverDone
<1>4. ASSUME case'.pc \in {"session", "counted"},
             case'.pc = "session" => case' \in [pc : {"session"}, before : Counts, count : Counts],
             case'.pc = "counted" =>
               case' \in [pc : {"counted"}, before : Counts, after : Counts, count : Counts]
      PROVE  VerdictInv'
  BY <1>4, Zenon DEF VerdictInv, VerdictIsEarned, AnswerIsUsable, ProceedIsEarned,
                     BlankNeverDone, MonitorAgrees, Counts
<1>5. CASE CountBefore
  BY <1>4, <1>5 DEF CountBefore, Counts
<1>6. CASE FilesChange
  <2>1. PICK n \in Counts : case' = [case EXCEPT !.count = n]
    BY <1>6 DEF FilesChange, Counts
  <2>2. CASE case.pc = "session"
    <3>1. case \in [pc : {"session"}, before : Counts, count : Counts]
      BY <2>2 DEF VerdictInv
    <3>2. case' \in [pc : {"session"}, before : Counts, count : Counts] /\ case'.pc = "session"
      BY <2>1, <3>1
    <3>3. QED
      BY <1>4, <3>2
  <2>3. CASE case.pc = "counted"
    <3>1. case \in [pc : {"counted"}, before : Counts, after : Counts, count : Counts]
      BY <2>3 DEF VerdictInv
    <3>2. /\ case' \in [pc : {"counted"}, before : Counts, after : Counts, count : Counts]
          /\ case'.pc = "counted"
      BY <2>1, <3>1
    <3>3. QED
      BY <1>4, <3>2
  <2>4. QED
    BY <1>6, <2>2, <2>3 DEF FilesChange
<1>7. CASE CountAfter
  <2>1. case \in [pc : {"session"}, before : Counts, count : Counts]
    BY <1>7 DEF CountAfter, VerdictInv
  <2>2. /\ case' \in [pc : {"counted"}, before : Counts, after : Counts, count : Counts]
        /\ case'.pc = "counted"
    BY <1>7, <2>1 DEF CountAfter
  <2>3. QED
    BY <1>4, <2>2
<1>8. CASE CreationCheck
  <2>1. case \in [pc : {"counted"}, before : Counts, after : Counts, count : Counts]
    BY <1>8 DEF CreationCheck, VerdictInv
  <2>2. PICK g \in {"both", "none", "one", "no number", "artifacts dir"}, c \in {"ok", "broken"},
             e \in Counts :
               case' = [pc |-> "checked", before |-> case.before, after |-> case.after,
                        count |-> case.count, given |-> g, contract |-> c, expected |-> e,
                        verdict |-> IF CheckVerdict(g, c, e) THEN "ok" ELSE "escalate"]
    BY <1>8 DEF CreationCheck, Counts
  <2> DEFINE passed == CheckVerdict(g, c, e)
  <2>3. passed => /\ c = "ok" /\ g \in {"both", "none"}
                  /\ g = "both" => case.after - case.before = e
                  /\ g = "none" => case.count = e
    BY DEF CheckVerdict
  <2> HIDE DEF passed
  <2>4. /\ case'.pc = "checked" /\ case'.before = case.before /\ case'.after = case.after
        /\ case'.count = case.count /\ case'.given = g /\ case'.contract = c /\ case'.expected = e
        /\ case'.verdict = IF passed THEN "ok" ELSE "escalate"
    BY <2>2 DEF passed
  <2>5. case.before \in Nat /\ case.after \in Nat /\ e \in Nat
    <3>1. case.before \in Counts /\ case.after \in Counts
      BY <2>1
    <3>2. QED
      BY <3>1, CountsAre, Zenon
  <2>6. ASSUME passed PROVE /\ g = "both" => case.after >= case.before /\ case.after = case.before + e
                            /\ g # "both" => case.count = e
    BY <2>3, <2>5, <2>6, Created, Zenon
  <2>7. ProceedIsEarned'
    BY <2>3, <2>4, <2>6 DEF ProceedIsEarned
  <2>8. QED
    BY <2>4, <2>7, Zenon DEF VerdictInv, VerdictIsEarned, AnswerIsUsable, BlankNeverDone, MonitorAgrees
<1>9. CASE UNCHANGED verdictVars
  <2>1. case' = case
    BY <1>9 DEF verdictVars
  <2>2. QED
    BY <2>1, ZenonT(60) DEF VerdictInv, VerdictIsEarned, AnswerIsUsable, BlankNeverDone,
                           ProceedIsEarned, MonitorAgrees
<1>10. QED
  BY <1>1, <1>2, <1>3, <1>5, <1>6, <1>7, <1>8, <1>9 DEF VerdictNext

(* A step goes on only on an answer that is well-formed and verified,       *)
(* whatever schema, contract or number of files it is judged by.            *)
THEOREM VerdictEarned == VerdictSpec => []VerdictIsEarned
<1>1. VerdictInit => VerdictInv
  BY DEF VerdictInit, VerdictInv, VerdictIsEarned, AnswerIsUsable, BlankNeverDone,
         ProceedIsEarned, MonitorAgrees
<1>2. VerdictInv => VerdictIsEarned
  BY DEF VerdictInv
<1>3. QED
  BY <1>1, <1>2, VerdictKept, PTL DEF VerdictSpec

-----------------------------------------------------------------------------
(* The epic file                                                            *)

BookLines == Headers \cup Marks \cup Contents

(* The ids of the stories, one line after the other.                        *)
LEMMA StoriesStep ==
    ASSUME NEW lines \in Seq(BookLines)
    PROVE  /\ StoriesIn(lines, 0) = <<>>
           /\ \A n \in 1 .. Len(lines) : StoriesIn(lines, n) = AddStory(StoriesIn(lines, n - 1), lines[n])
           /\ \A n \in 0 .. Len(lines) : StoriesIn(lines, n) \in Seq(StoryIds)
<1> DEFINE len == Len(lines)
           base == <<>>
           Meant(f) == f = [i \in 0 .. len |-> IF i = 0 THEN base ELSE AddStory(f[i - 1], lines[i])]
<1>1. len \in Nat /\ \A i \in 1 .. len : lines[i] \in BookLines
  BY LenProperties, ElementOfSeq
<1>2. base \in Seq(StoryIds)
  BY EmptySeq
<1>3. ASSUME NEW i \in 1 .. len, NEW ids \in Seq(StoryIds) PROVE AddStory(ids, lines[i]) \in Seq(StoryIds)
  <2>1. CASE lines[i].kind = "story"
    <3>1. lines[i].id \in StoryIds
      BY <1>1, <2>1 DEF BookLines, Headers, Marks, Contents
    <3>2. Append(ids, lines[i].id) \in Seq(StoryIds)
      BY <3>1, AppendProperties
    <3>3. QED
      BY <2>1, <3>2, Zenon DEF AddStory
  <2>2. CASE lines[i].kind # "story"
    BY <2>2, Zenon DEF AddStory
  <2>3. QED
    BY <2>1, <2>2
<1> HIDE DEF base
<1>4. \E f : Meant(f)
  <2> DEFINE g == [p \in (1 .. len) \X Seq(StoryIds) |-> AddStory(p[2], lines[p[1]])]
  <2>1. g \in [(1 .. len) \X Seq(StoryIds) -> Seq(StoryIds)]
    <3>1. \A p \in (1 .. len) \X Seq(StoryIds) : p[1] \in 1 .. len /\ p[2] \in Seq(StoryIds)
      OBVIOUS
    <3>2. \A p \in (1 .. len) \X Seq(StoryIds) : AddStory(p[2], lines[p[1]]) \in Seq(StoryIds)
      BY <1>3, <3>1, Zenon
    <3>3. QED
      BY <3>2
  <2> HIDE DEF g
  <2>2. PICK f \in [0 .. len -> Seq(StoryIds)] : Steps(f, len, base, g)
    BY <1>1, <1>2, <2>1, Recursion
  <2>3. ASSUME NEW i \in 1 .. len PROVE f[i] = AddStory(f[i - 1], lines[i])
    <3>1. i - 1 \in 0 .. len
      BY <1>1
    <3>2. <<i, f[i - 1]>> \in (1 .. len) \X Seq(StoryIds)
      BY <3>1
    <3>3. g[<<i, f[i - 1]>>] = AddStory(f[i - 1], lines[i])
      BY <3>2 DEF g
    <3>4. QED
      BY <2>2, <3>3, Zenon DEF Steps
  <2>4. f = [i \in 0 .. len |-> f[i]]
    OBVIOUS
  <2>5. \A i \in 0 .. len : i = 0 \/ i \in 1 .. len
    BY <1>1
  <2>6. \A i \in 0 .. len : f[i] = IF i = 0 THEN base ELSE AddStory(f[i - 1], lines[i])
    BY <2>2, <2>3, <2>5, Zenon DEF Steps
  <2>7. QED
    BY <2>4, <2>6, Zenon
<1>5. PICK f : Meant(f) /\ \A n : StoriesIn(lines, n) = f[n]
  <2> DEFINE f == CHOOSE f : Meant(f)
  <2>1. Meant(f)
    BY <1>4, Zenon
  <2>2. \A n : StoriesIn(lines, n) = f[n]
    BY Zenon DEF StoriesIn, base
  <2> HIDE DEF f
  <2>3. QED
    BY <2>1, <2>2, Zenon
<1>6. \A i \in 0 .. len : f[i] = IF i = 0 THEN base ELSE AddStory(f[i - 1], lines[i])
  BY <1>5, Zenon
<1>7. 0 \in 0 .. len /\ \A i \in 1 .. len : i \in 0 .. len /\ i # 0
  BY <1>1
<1>8. f[0] = base /\ \A i \in 1 .. len : f[i] = AddStory(f[i - 1], lines[i])
  BY <1>6, <1>7, Zenon
<1>9. \A i \in 0 .. len : f[i] \in Seq(StoryIds)
  <2> HIDE DEF Meant
  <2> DEFINE S == {i \in 0 .. len : f[i] \in Seq(StoryIds)}
  <2>1. 0 \in S
    BY <1>2, <1>7, <1>8, Zenon
  <2>2. ASSUME NEW i \in 1 .. len, i - 1 \in S PROVE i \in S
    <3>1. f[i - 1] \in Seq(StoryIds)
      BY <2>2, Zenon
    <3>2. f[i] \in Seq(StoryIds)
      BY <1>3, <1>8, <3>1, Zenon
    <3>3. QED
      BY <1>7, <3>2, Zenon
  <2> HIDE DEF S
  <2>3. 0 .. len \subseteq S
    BY <1>1, <2>1, <2>2, Induct
  <2>4. QED
    BY <2>3 DEF S
<1>10. QED
  BY <1>5, <1>8, <1>9, Zenon DEF base

\* The first header of a story and the last line of its section.
StartOf(lines, id) == SmallestOf(HeaderAt(lines, id))
StopOf(lines, id) ==
    LET ends == {i \in DOMAIN lines : i > StartOf(lines, id) /\ EndsSection(lines[i])}
    IN  IF ends = {} THEN Len(lines) ELSE SmallestOf(ends) - 1

(* The smallest of some positions is one of them.                           *)
LEMMA SmallestIs ==
    ASSUME NEW T, T \subseteq Nat, T # {}
    PROVE  SmallestOf(T) \in T /\ \A i \in T : SmallestOf(T) <= i
<1>1. \E x \in T : \A y \in T : x <= y
  BY LeastNat
<1>2. QED
  BY <1>1, Zenon DEF SmallestOf

(* A section starts behind the first header of its story and goes as far as *)
(* the line before the next one that ends a section.                        *)
LEMMA SectionIs ==
    ASSUME NEW lines \in Seq(BookLines), NEW id, HeaderAt(lines, id) # {}
    PROVE  LET start == StartOf(lines, id)
               stop  == StopOf(lines, id)
               part  == Section(lines, id)
           IN  /\ start \in HeaderAt(lines, id) /\ start \in 1 .. Len(lines)
               /\ \A i \in HeaderAt(lines, id) : start <= i
               /\ stop \in start .. Len(lines)
               /\ \A i \in start + 1 .. stop : ~EndsSection(lines[i])
               /\ stop < Len(lines) => EndsSection(lines[stop + 1])
               /\ part \in Seq(BookLines) /\ Len(part) = stop - start
               /\ \A k \in 1 .. stop - start : part[k] = lines[start + k]
<1> DEFINE start == StartOf(lines, id)
           stop  == StopOf(lines, id)
           ends  == {i \in DOMAIN lines : i > start /\ EndsSection(lines[i])}
<1>1. DOMAIN lines = 1 .. Len(lines) /\ Len(lines) \in Nat /\ \A i \in 1 .. Len(lines) : lines[i] \in BookLines
  BY LenProperties, ElementOfSeq
<1>2. HeaderAt(lines, id) \subseteq 1 .. Len(lines)
  BY <1>1 DEF HeaderAt
<1>3. HeaderAt(lines, id) \subseteq Nat
  BY <1>2
<1>4. start \in HeaderAt(lines, id) /\ \A i \in HeaderAt(lines, id) : start <= i
  BY <1>3, SmallestIs, Zenon DEF StartOf
<1>5. start \in 1 .. Len(lines)
  BY <1>2, <1>4, Zenon
<1> HIDE DEF start
<1>6. /\ stop \in start .. Len(lines)
      /\ \A i \in start + 1 .. stop : ~EndsSection(lines[i])
      /\ stop < Len(lines) => EndsSection(lines[stop + 1])
  <2>1. CASE ends = {}
    <3>1. stop = Len(lines)
      BY <2>1, Zenon DEF StopOf, start
    <3> HIDE DEF stop
    <3>2. QED
      BY <1>1, <1>5, <2>1, <3>1
  <2>2. CASE ends # {}
    <3> DEFINE e == SmallestOf(ends)
    <3>1. ends \subseteq Nat
      BY <1>1
    <3>2. e \in ends /\ \A i \in ends : e <= i
      BY <2>2, <3>1, SmallestIs, Zenon
    <3>3. stop = e - 1
      BY <2>2, Zenon DEF StopOf, start
    <3> HIDE DEF stop, e
    <3>4. e \in 1 .. Len(lines) /\ e > start /\ EndsSection(lines[e])
      BY <1>1, <3>2
    <3>5. e - 1 \in start .. Len(lines) /\ (e - 1) + 1 = e
      BY <1>1, <1>5, <3>4
    <3>6. ASSUME NEW i \in start + 1 .. e - 1, EndsSection(lines[i]) PROVE FALSE
      <4>1. i \in 1 .. Len(lines) /\ i > start /\ ~(e <= i)
        BY <1>1, <1>5, <3>4
      <4>2. i \in ends
        BY <1>1, <3>6, <4>1
      <4>3. QED
        BY <3>2, <4>1, <4>2
    <3>7. QED
      BY <3>3, <3>4, <3>5, <3>6
  <2>3. QED
    BY <2>1, <2>2
<1>7. Section(lines, id) = SubSeq(lines, start + 1, stop)
  BY Zenon DEF Section, StopOf, StartOf, start
<1> HIDE DEF stop, ends
<1>8. start + 1 \in Int /\ stop \in Int /\ \A i \in start + 1 .. stop : i \in 1 .. Len(lines)
  BY <1>1, <1>5, <1>6
<1>9. \A i \in start + 1 .. stop : lines[i] \in BookLines
  BY <1>1, <1>8
<1> DEFINE part == SubSeq(lines, start + 1, stop)
<1>10. /\ part \in Seq(BookLines)
       /\ Len(part) = IF start + 1 <= stop THEN stop - (start + 1) + 1 ELSE 0
       /\ \A k \in 1 .. stop - (start + 1) + 1 : part[k] = lines[(start + 1) + k - 1]
  BY <1>8, <1>9, SubSeqProperties
<1> HIDE DEF part
<1>11. Len(part) = stop - start
  BY <1>5, <1>6, <1>10
<1>12. ASSUME NEW k \in 1 .. stop - start PROVE part[k] = lines[start + k]
  <2>1. k \in 1 .. stop - (start + 1) + 1 /\ (start + 1) + k - 1 = start + k
    BY <1>5, <1>6
  <2>2. QED
    BY <1>10, <2>1
<1>13. QED
  BY <1>4, <1>5, <1>6, <1>7, <1>10, <1>11, <1>12, Zenon DEF start, stop, part

(* Where every header is canonical, a section is the lines between its      *)
(* header and the next.                                                     *)
LEMMA OwnLines ==
    ASSUME NEW lines \in Seq(BookLines), NEW id, HeaderAt(lines, id) # {},
           \A i \in DOMAIN lines : lines[i].kind \in {"story", "epic"} => lines[i].canonical
    PROVE  LET start == SmallestOf(HeaderAt(lines, id))
               owned == {i \in start + 1 .. Len(lines) :
                           \A j \in start + 1 .. i : lines[j].kind \notin {"story", "epic"}}
           IN  Section(lines, id) = [k \in 1 .. Cardinality(owned) |-> lines[start + k]]
<1> DEFINE start == StartOf(lines, id)
           stop  == StopOf(lines, id)
           part  == Section(lines, id)
           owned == {i \in start + 1 .. Len(lines) :
                       \A j \in start + 1 .. i : lines[j].kind \notin {"story", "epic"}}
<1>1. /\ start \in 1 .. Len(lines) /\ stop \in start .. Len(lines)
      /\ \A i \in start + 1 .. stop : ~EndsSection(lines[i])
      /\ stop < Len(lines) => EndsSection(lines[stop + 1])
      /\ part \in Seq(BookLines) /\ Len(part) = stop - start
      /\ \A k \in 1 .. stop - start : part[k] = lines[start + k]
  BY SectionIs, Zenon
<1> HIDE DEF start, stop, part
<1>2. DOMAIN lines = 1 .. Len(lines) /\ Len(lines) \in Nat
  BY LenProperties
<1>3. \A i \in 1 .. Len(lines) : EndsSection(lines[i]) <=> lines[i].kind \in {"story", "epic"}
  BY <1>2, Zenon DEF EndsSection
<1>4. owned = start + 1 .. stop
  <2>1. ASSUME NEW i \in start + 1 .. stop PROVE i \in owned
    <3>1. i \in start + 1 .. Len(lines)
      BY <1>1, <1>2
    <3>2. ASSUME NEW j \in start + 1 .. i PROVE lines[j].kind \notin {"story", "epic"}
      <4>1. j \in start + 1 .. stop /\ j \in 1 .. Len(lines)
        BY <1>1, <1>2
      <4>2. QED
        BY <1>1, <1>3, <4>1, Zenon
    <3>3. QED
      BY <3>1, <3>2
  <2>2. ASSUME NEW i \in owned, i \notin start + 1 .. stop PROVE FALSE
    <3>1. i \in start + 1 .. Len(lines) /\ \A j \in start + 1 .. i : lines[j].kind \notin {"story", "epic"}
      BY <2>2
    <3>2. stop < Len(lines) /\ stop + 1 \in start + 1 .. i /\ stop + 1 \in 1 .. Len(lines)
      BY <1>1, <1>2, <2>2, <3>1
    <3>3. QED
      BY <1>1, <1>3, <3>1, <3>2, Zenon
  <2> HIDE DEF owned
  <2>3. QED
    BY <2>1, <2>2
<1> HIDE DEF owned
<1>5. Cardinality(owned) = stop - start
  <2>1. start + 1 \in Int /\ stop \in Int
    BY <1>1, <1>2
  <2>2. Cardinality(start + 1 .. stop) = IF start + 1 > stop THEN 0 ELSE stop - (start + 1) + 1
    BY <2>1, FS_Interval
  <2>3. QED
    BY <1>1, <1>2, <1>4, <2>2
<1>6. part = [k \in 1 .. stop - start |-> lines[start + k]]
  <2>1. DOMAIN part = 1 .. stop - start /\ part = [k \in DOMAIN part |-> part[k]]
    BY <1>1, LenProperties
  <2>2. QED
    BY <1>1, <2>1
<1>7. QED
  BY <1>5, <1>6, Zenon DEF part, owned, start, StartOf

\* t has the lines of s, and perhaps more behind them.
GoesOn(s, t) == Len(s) <= Len(t) /\ \A k \in 1 .. Len(s) : t[k] = s[k]

(* A line that is added is in a story's section or behind it.               *)
LEMMA SectionGrows ==
    ASSUME NEW lines \in Seq(BookLines), NEW l \in BookLines, NEW id, HeaderAt(lines, id) # {}
    PROVE  GoesOn(Section(lines, id), Section(Append(lines, l), id))
<1> DEFINE more   == Append(lines, l)
           start  == StartOf(lines, id)
           stop   == StopOf(lines, id)
           part   == Section(lines, id)
           start2 == StartOf(more, id)
           stop2  == StopOf(more, id)
           part2  == Section(more, id)
<1>1. /\ more \in Seq(BookLines) /\ Len(more) = Len(lines) + 1 /\ Len(lines) \in Nat
      /\ \A i \in 1 .. Len(lines) : more[i] = lines[i]
  BY AppendProperties, LenProperties
<1>2. DOMAIN lines = 1 .. Len(lines) /\ DOMAIN more = 1 .. Len(lines) + 1
  BY <1>1, LenProperties
<1> HIDE DEF more
<1>3. \A i \in 1 .. Len(lines) : i \in HeaderAt(lines, id) <=> i \in HeaderAt(more, id)
  BY <1>1, <1>2 DEF HeaderAt
<1>4. /\ start \in HeaderAt(lines, id) /\ start \in 1 .. Len(lines)
      /\ \A i \in HeaderAt(lines, id) : start <= i
      /\ stop \in start .. Len(lines)
      /\ \A i \in start + 1 .. stop : ~EndsSection(lines[i])
      /\ stop < Len(lines) => EndsSection(lines[stop + 1])
      /\ Len(part) = stop - start
      /\ \A k \in 1 .. stop - start : part[k] = lines[start + k]
  BY SectionIs, Zenon
<1>5. HeaderAt(more, id) # {}
  BY <1>3, <1>4
<1>6. /\ start2 \in HeaderAt(more, id) /\ start2 \in 1 .. Len(more)
      /\ \A i \in HeaderAt(more, id) : start2 <= i
      /\ stop2 \in start2 .. Len(more)
      /\ \A i \in start2 + 1 .. stop2 : ~EndsSection(more[i])
      /\ stop2 < Len(more) => EndsSection(more[stop2 + 1])
      /\ Len(part2) = stop2 - start2
      /\ \A k \in 1 .. stop2 - start2 : part2[k] = more[start2 + k]
  BY <1>1, <1>5, SectionIs, Zenon
<1> HIDE DEF start, stop, part, start2, stop2, part2
<1>7. start2 = start
  <2>1. start2 <= start
    BY <1>3, <1>4, <1>6
  <2>2. start2 \in 1 .. Len(lines)
    BY <1>1, <1>4, <1>6, <2>1
  <2>3. start <= start2
    BY <1>3, <1>4, <1>6, <2>2
  <2>4. QED
    BY <1>1, <1>4, <2>1, <2>2, <2>3
<1>8. stop <= stop2
  <2> SUFFICES ASSUME ~(stop <= stop2) PROVE FALSE
    OBVIOUS
  <2>1. stop2 < Len(more) /\ stop2 + 1 \in start + 1 .. stop /\ stop2 + 1 \in 1 .. Len(lines)
    BY <1>1, <1>4, <1>6, <1>7
  <2>2. more[stop2 + 1] = lines[stop2 + 1]
    BY <1>1, <2>1
  <2>3. QED
    BY <1>4, <1>6, <2>1, <2>2, Zenon
<1>9. ASSUME NEW k \in 1 .. stop - start PROVE part2[k] = part[k]
  <2>1. k \in 1 .. stop2 - start2 /\ start + k \in 1 .. Len(lines)
    BY <1>1, <1>4, <1>6, <1>7, <1>8
  <2>2. part2[k] = more[start + k] /\ more[start + k] = lines[start + k]
    BY <1>1, <1>6, <1>7, <2>1, Zenon
  <2>3. QED
    BY <1>4, <1>9, <2>2, Zenon
<1>10. Len(part) <= Len(part2)
  BY <1>1, <1>4, <1>6, <1>7, <1>8
<1>11. QED
  BY <1>4, <1>9, <1>10, Zenon DEF GoesOn, part, part2, more

\* The places of some kinds of lines.
PlacesOf(s, K) == {i \in DOMAIN s : s[i].kind \in K}

(* The places of some kind of line in a section that goes on are those it   *)
(* had, and later ones.                                                     *)
LEMMA PlacesGrow ==
    ASSUME NEW s \in Seq(BookLines), NEW t \in Seq(BookLines), GoesOn(s, t), NEW K
    PROVE  PlacesOf(s, K) # {} =>
               /\ PlacesOf(t, K) # {} /\ SmallestOf(PlacesOf(t, K)) = SmallestOf(PlacesOf(s, K))
               /\ SmallestOf(PlacesOf(s, K)) \in PlacesOf(s, K)
<1> DEFINE ins == PlacesOf(s, K)
           int == PlacesOf(t, K)
<1>1. /\ DOMAIN s = 1 .. Len(s) /\ Len(s) \in Nat
      /\ DOMAIN t = 1 .. Len(t) /\ Len(t) \in Nat
      /\ Len(s) <= Len(t) /\ \A k \in 1 .. Len(s) : t[k] = s[k]
  BY LenProperties DEF GoesOn
<1>2. \A i \in ins : i \in 1 .. Len(s) /\ i \in int
  BY <1>1 DEF PlacesOf
<1>3. \A i \in int : i \in ins \/ i > Len(s)
  BY <1>1 DEF PlacesOf
<1>4. ins \subseteq Nat /\ int \subseteq Nat /\ ins \subseteq 1 .. Len(s) /\ int \subseteq 1 .. Len(t)
  BY <1>1 DEF PlacesOf
<1> HIDE DEF ins, int
<1>5. ASSUME ins # {} PROVE int # {} /\ SmallestOf(int) = SmallestOf(ins) /\ SmallestOf(ins) \in ins
  <2> DEFINE a == SmallestOf(ins)
             b == SmallestOf(int)
  <2>1. int # {}
    BY <1>2, <1>5
  <2>2. a \in ins /\ \A i \in ins : a <= i
    BY <1>4, <1>5, SmallestIs, Zenon
  <2>3. b \in int /\ \A i \in int : b <= i
    BY <1>4, <2>1, SmallestIs, Zenon
  <2> HIDE DEF a, b
  <2>4. b <= a /\ a \in 1 .. Len(s)
    BY <1>2, <2>2, <2>3
  <2>5. b \in ins
    BY <1>1, <1>3, <1>4, <2>3, <2>4
  <2>6. a <= b
    BY <2>2, <2>5
  <2>7. a = b
    BY <1>4, <2>2, <2>4, <2>5, <2>6
  <2>8. QED
    BY <2>1, <2>2, <2>7 DEF a, b
<1>6. QED
  BY <1>5, Zenon DEF ins, int

\* The parts of a score.
Headings(s) == {i \in DOMAIN s : s[i].kind = "ac"}
Criteria(s) == IF Headings(s) = {} THEN 0
               ELSE Cardinality({i \in DOMAIN s : i > SmallestOf(Headings(s)) /\ s[i].kind # "ac"})
WordsOf(s)  == Cardinality({i \in DOMAIN s : s[i].kind # "ac"})
HotPart(h)        == IF h THEN Scores.hotScore ELSE 0
EasyPart(e)       == IF e THEN Scores.easyScore ELSE 0
CriteriaPart(c)   == IF Scores.ac2 > 0 /\ c > Scores.ac2 THEN Scores.acScore2
                     ELSE IF Scores.ac1 > 0 /\ c > Scores.ac1 THEN Scores.acScore1 ELSE 0
DependencyPart(d) == IF d = "dependency" THEN Scores.depScore ELSE 0
WordPart(w)       == IF Scores.words > 0 /\ w > Scores.words THEN Scores.wordScore ELSE 0

(* A score is the sum of its parts.                                         *)
LEMMA ScoreIs ==
    ASSUME NEW s
    PROVE  ComplexityScore(s) = HotPart(Names(s, "hot")) + EasyPart(Names(s, "easy"))
                              + CriteriaPart(Criteria(s))
                              + DependencyPart(Dependency(s)) + WordPart(WordsOf(s))
  BY Zenon DEF ComplexityScore, HotPart, EasyPart, CriteriaPart, DependencyPart, WordPart, Criteria,
               WordsOf, Headings

(* The rules file grades its scores.                                        *)
LEMMA ScoresAre ==
    /\ Scores.ac1 \in Nat /\ Scores.ac2 \in Nat /\ Scores.acScore1 \in Nat
    /\ Scores.acScore2 \in Nat /\ Scores.depScore \in Nat /\ Scores.words \in Nat
    /\ Scores.wordScore \in Nat /\ Scores.hotScore \in Nat /\ Scores.low \in Nat
    /\ Scores.medium \in Nat /\ Scores.easyScore \in Int /\ Scores.easyScore <= 0
    /\ Scores.ac1 <= Scores.ac2 /\ Scores.acScore1 <= Scores.acScore2
    /\ Scores.low <= Scores.medium
  BY BookAssumption

(* Each part grows with what it counts.                                     *)
LEMMA PartsGrow ==
    /\ \A c, d \in Nat : c <= d => CriteriaPart(c) <= CriteriaPart(d)
    /\ \A c, d \in Nat : c <= d => WordPart(c) <= WordPart(d)
    /\ \A c \in Nat : CriteriaPart(c) \in Nat /\ WordPart(c) \in Nat
  BY ScoresAre, SMT DEF CriteriaPart, WordPart

(* A section that goes on has no lower score, but for a reducer it did not  *)
(* match before.                                                            *)
LEMMA ScoreGrows ==
    ASSUME NEW s \in Seq(BookLines), NEW t \in Seq(BookLines), GoesOn(s, t)
    PROVE  LET reduced == Names(t, "easy") /\ ~Names(s, "easy") IN
           /\ ~reduced => ComplexityScore(s) <= ComplexityScore(t)
           /\ reduced => ComplexityScore(s) + Scores.easyScore <= ComplexityScore(t)
           /\ ComplexityScore(s) \in Int /\ ComplexityScore(t) \in Int
<1>1. /\ DOMAIN s = 1 .. Len(s) /\ Len(s) \in Nat
      /\ DOMAIN t = 1 .. Len(t) /\ Len(t) \in Nat
      /\ Len(s) <= Len(t) /\ \A k \in 1 .. Len(s) : t[k] = s[k]
  BY LenProperties DEF GoesOn
<1>2. 1 .. Len(s) \subseteq 1 .. Len(t)
  BY <1>1
<1>3. IsFiniteSet(1 .. Len(t)) /\ IsFiniteSet(1 .. Len(s))
  <2>1. 1 \in Int /\ Len(s) \in Int /\ Len(t) \in Int
    BY <1>1
  <2>2. QED
    BY <2>1, FS_Interval
<1>4. ASSUME NEW A, NEW B, A \subseteq 1 .. Len(s), B \subseteq 1 .. Len(t), A \subseteq B
      PROVE  Cardinality(A) \in Nat /\ Cardinality(B) \in Nat /\ Cardinality(A) <= Cardinality(B)
  <2>1. IsFiniteSet(A) /\ IsFiniteSet(B)
    BY <1>3, <1>4, FS_Subset
  <2>2. QED
    BY <1>4, <2>1, FS_Subset, FS_CardinalityType
<1>5. /\ Headings(s) \subseteq 1 .. Len(s) /\ Headings(t) \subseteq 1 .. Len(t)
      /\ Headings(s) # {} => Headings(t) # {} /\ SmallestOf(Headings(t)) = SmallestOf(Headings(s))
  <2>1. Headings(s) = PlacesOf(s, {"ac"}) /\ Headings(t) = PlacesOf(t, {"ac"})
    BY DEF Headings, PlacesOf
  <2> DEFINE K == {"ac"}
  <2>2. Headings(s) = PlacesOf(s, K) /\ Headings(t) = PlacesOf(t, K)
    BY <2>1
  <2> HIDE DEF K
  <2>3. PlacesOf(s, K) # {} =>
           PlacesOf(t, K) # {} /\ SmallestOf(PlacesOf(t, K)) = SmallestOf(PlacesOf(s, K))
    BY PlacesGrow, Zenon
  <2>4. Headings(s) # {} => Headings(t) # {} /\ SmallestOf(Headings(t)) = SmallestOf(Headings(s))
    BY <2>2, <2>3, Zenon
  <2>5. QED
    BY <1>1, <2>4 DEF Headings
<1>6. Criteria(s) \in Nat /\ Criteria(t) \in Nat /\ Criteria(s) <= Criteria(t)
  <2> DEFINE first == SmallestOf(Headings(t))
             ca == {i \in DOMAIN s : i > SmallestOf(Headings(s)) /\ s[i].kind # "ac"}
             cb == {i \in DOMAIN t : i > first /\ t[i].kind # "ac"}
  <2>1. ca \subseteq 1 .. Len(s) /\ cb \subseteq 1 .. Len(t)
    BY <1>1
  <2>2. Headings(s) # {} => ca \subseteq cb
    BY <1>1, <1>5
  <2>3. Criteria(s) = (IF Headings(s) = {} THEN 0 ELSE Cardinality(ca))
        /\ Criteria(t) = (IF Headings(t) = {} THEN 0 ELSE Cardinality(cb))
    BY Zenon DEF Criteria
  <2> HIDE DEF first, ca, cb
  <2>4. /\ Cardinality(ca) \in Nat /\ Cardinality(cb) \in Nat
        /\ Headings(s) # {} => Cardinality(ca) <= Cardinality(cb)
    <3>1. ca \subseteq ca /\ cb \subseteq cb /\ {} \subseteq ca /\ {} \subseteq cb
          /\ {} \subseteq 1 .. Len(s)
      OBVIOUS
    <3>2. Cardinality(cb) \in Nat
      BY <1>3, <2>1, FS_Subset, FS_CardinalityType
    <3>3. ca \subseteq 1 .. Len(t)
      BY <1>2, <2>1
    <3>4. Cardinality(ca) \in Nat
      BY <1>3, <2>1, FS_Subset, FS_CardinalityType
    <3>5. QED
      BY <1>4, <2>1, <2>2, <3>2, <3>4
  <2>5. QED
    BY <1>5, <2>3, <2>4
<1>7. WordsOf(s) \in Nat /\ WordsOf(t) \in Nat /\ WordsOf(s) <= WordsOf(t)
  <2> DEFINE wa == {i \in DOMAIN s : s[i].kind # "ac"}
             wb == {i \in DOMAIN t : t[i].kind # "ac"}
  <2>1. wa \subseteq 1 .. Len(s) /\ wb \subseteq 1 .. Len(t) /\ wa \subseteq wb
    BY <1>1
  <2> HIDE DEF wa, wb
  <2>2. Cardinality(wa) \in Nat /\ Cardinality(wb) \in Nat /\ Cardinality(wa) <= Cardinality(wb)
    BY <1>4, <2>1
  <2>3. QED
    BY <2>2 DEF WordsOf, wa, wb
<1>8. \A kind : Names(s, kind) => Names(t, kind)
  BY <1>1 DEF Names
<1>9. Dependency(s) = "dependency" => Dependency(t) = "dependency"
  <2> DEFINE blank == ""
             K  == {"no dependency", "dependency"}
             da == PlacesOf(s, K)
             db == PlacesOf(t, K)
  <2>1. /\ Dependency(s) = IF da = {} THEN blank ELSE s[SmallestOf(da)].kind
        /\ Dependency(t) = IF db = {} THEN blank ELSE t[SmallestOf(db)].kind
        /\ blank # "dependency"
    BY Zenon DEF Dependency, PlacesOf
  <2>2. da # {} => db # {} /\ SmallestOf(db) = SmallestOf(da) /\ SmallestOf(da) \in da
    BY PlacesGrow, Zenon
  <2>3. \A i \in da : t[i] = s[i]
    BY <1>1 DEF PlacesOf
  <2> HIDE DEF blank, da, db
  <2>4. QED
    BY <2>1, <2>2, <2>3, Zenon
<1> DEFINE h1 == HotPart(Names(s, "hot"))
           h2 == HotPart(Names(t, "hot"))
           e1 == EasyPart(Names(s, "easy"))
           e2 == EasyPart(Names(t, "easy"))
           reduced == Names(t, "easy") /\ ~Names(s, "easy")
           c1 == CriteriaPart(Criteria(s))
           c2 == CriteriaPart(Criteria(t))
           d1 == DependencyPart(Dependency(s))
           d2 == DependencyPart(Dependency(t))
           w1 == WordPart(WordsOf(s))
           w2 == WordPart(WordsOf(t))
<1>10. h1 \in Nat /\ h2 \in Nat /\ h1 <= h2
  <2>1. (h1 = 0 \/ h1 = Scores.hotScore) /\ (h2 = 0 \/ h2 = Scores.hotScore)
        /\ (h1 # 0 => h2 = Scores.hotScore)
    BY <1>8, Zenon DEF HotPart
  <2> HIDE DEF h1, h2
  <2>2. QED
    BY <2>1, ScoresAre
<1>11. d1 \in Nat /\ d2 \in Nat /\ d1 <= d2
  <2>1. (d1 = 0 \/ d1 = Scores.depScore) /\ (d2 = 0 \/ d2 = Scores.depScore)
        /\ (d1 # 0 => d2 = Scores.depScore)
    BY <1>9, Zenon DEF DependencyPart
  <2> HIDE DEF d1, d2
  <2>2. QED
    BY <2>1, ScoresAre
<1>12. c1 \in Nat /\ c2 \in Nat /\ c1 <= c2
  BY <1>6, PartsGrow, Zenon
<1>13. w1 \in Nat /\ w2 \in Nat /\ w1 <= w2
  BY <1>7, PartsGrow, Zenon
<1>14. ComplexityScore(s) = h1 + e1 + c1 + d1 + w1 /\ ComplexityScore(t) = h2 + e2 + c2 + d2 + w2
  BY ScoreIs, Zenon
<1>15. /\ e1 = 0 \/ e1 = Scores.easyScore
       /\ e2 = 0 \/ e2 = Scores.easyScore
       /\ reduced => e1 = 0 /\ e2 = Scores.easyScore
       /\ ~reduced => e1 = e2
  BY <1>8, Zenon DEF EasyPart
<1> HIDE DEF h1, h2, e1, e2, c1, c2, d1, d2, w1, w2, reduced
<1>16. /\ e1 \in Int /\ e2 \in Int
       /\ ~reduced => e1 = e2
       /\ reduced => e2 = e1 + Scores.easyScore
  BY <1>15, ScoresAre
<1>17. /\ ~reduced => ComplexityScore(s) <= ComplexityScore(t)
       /\ reduced => ComplexityScore(s) + Scores.easyScore <= ComplexityScore(t)
       /\ ComplexityScore(s) \in Int /\ ComplexityScore(t) \in Int
  <2> DEFINE a1 == h1 + c1 + d1 + w1
             a2 == h2 + c2 + d2 + w2
             easy == Scores.easyScore
             s1 == ComplexityScore(s)
             s2 == ComplexityScore(t)
  <2>1. a1 \in Int /\ a2 \in Int /\ a1 <= a2
    BY <1>10, <1>11, <1>12, <1>13
  <2>2. s1 = a1 + e1 /\ s2 = a2 + e2
    <3> HIDE DEF s1, s2
    <3>1. s1 = h1 + e1 + c1 + d1 + w1 /\ s2 = h2 + e2 + c2 + d2 + w2
      BY <1>14 DEF s1, s2
    <3>2. QED
      BY <1>10, <1>11, <1>12, <1>13, <1>16, <3>1
  <2>3. easy \in Int
    BY ScoresAre
  <2>4. /\ e1 \in Int /\ e2 \in Int
        /\ ~reduced => e1 = e2
        /\ reduced => e2 = e1 + easy
    BY <1>16
  <2> HIDE DEF a1, a2, easy, s1, s2
  <2>5. /\ ~reduced => s1 <= s2
        /\ reduced => s1 + easy <= s2
        /\ s1 \in Int /\ s2 \in Int
    BY <2>1, <2>2, <2>3, <2>4
  <2>6. QED
    BY <2>5 DEF s1, s2, easy
<1>18. QED
  BY <1>17, Zenon DEF reduced

(* A score that is no lower gives no lower level.                           *)
LEMMA LevelGrows ==
    ASSUME NEW x \in Int, NEW y \in Int, x <= y
    PROVE  ComplexityLevel(y) >= ComplexityLevel(x)
  BY ScoresAre DEF ComplexityLevel

(* The order of the ids is one: nothing is less than itself, and it goes on *)
(* from one id to the next.                                                 *)
LEMMA IdOrder ==
    /\ \A x \in Nat \X Nat : ~IdLess(x, x)
    /\ \A x, y, z \in Nat \X Nat : ~IdLess(x, z) /\ IdLess(x, y) => ~IdLess(y, z)
<1>1. \A x \in Nat \X Nat : x[1] \in Nat /\ x[2] \in Nat
  OBVIOUS
<1>2. ASSUME NEW x \in Nat \X Nat, NEW y \in Nat \X Nat, NEW z \in Nat \X Nat,
             ~IdLess(x, z), IdLess(x, y)
      PROVE ~IdLess(y, z)
  <2> DEFINE a == x[1]
             b == x[2]
             c == z[1]
             d == z[2]
             e == y[1]
             f == y[2]
  <2>1. a \in Nat /\ b \in Nat /\ c \in Nat /\ d \in Nat /\ e \in Nat /\ f \in Nat
    BY <1>1
  <2>2. ~(a < c \/ (a = c /\ b < d)) /\ (a < e \/ (a = e /\ b < f))
    BY <1>2, Zenon DEF IdLess
  <2> HIDE DEF a, b, c, d, e, f
  <2>3. ~(e < c \/ (e = c /\ f < d))
    BY <2>1, <2>2, SMT
  <2>4. QED
    BY <2>3, Zenon DEF IdLess, a, b, c, d, e, f
<1>3. ASSUME NEW x \in Nat \X Nat PROVE ~IdLess(x, x)
  BY <1>1 DEF IdLess
<1>4. QED
  BY <1>2, <1>3, Zenon

(* One of the first m ids is the greatest of them.                          *)
LEMMA GreatestAmong ==
    ASSUME NEW ids \in Seq(StoryIds), NEW m \in 1 .. Len(ids)
    PROVE  LET T == {ids[i] : i \in 1 .. m}
           IN  GreatestId(T) \in T /\ \A y \in T : ~IdLess(GreatestId(T), y)
<1> DEFINE Top(i, k) == \A j \in 1 .. k : ~IdLess(ids[i], ids[j])
           Good == {k \in 0 .. m : k = 0 \/ \E i \in 1 .. k : Top(i, k)}
<1>1. Len(ids) \in Nat /\ m \in Nat /\ m > 0 /\ \A i \in 1 .. m : ids[i] \in Nat \X Nat
  <2>1. StoryIds \subseteq Nat \X Nat
    BY BookAssumption
  <2>2. Len(ids) \in Nat /\ \A i \in 1 .. Len(ids) : ids[i] \in StoryIds
    BY LenProperties, ElementOfSeq
  <2>3. QED
    BY <2>1, <2>2
<1>2. ASSUME NEW k \in 1 .. m, k - 1 \in Good PROVE k \in Good
  <2>1. k \in 0 .. m /\ k - 1 \in Nat /\ \A j \in 1 .. k : j = k \/ j \in 1 .. k - 1
    BY <1>1
  <2>2. ids[k] \in Nat \X Nat /\ \A j \in 1 .. k : ids[j] \in Nat \X Nat
    BY <1>1
  <2>3. k \in 1 .. k /\ \A i \in 1 .. k - 1 : i \in 1 .. k
    BY <1>1
  <2>4. CASE k - 1 = 0
    <3>1. \A j \in 1 .. k : j = k
      BY <1>1, <2>4
    <3>2. Top(k, k)
      BY <2>2, <3>1, IdOrder, Zenon
    <3>3. QED
      BY <2>1, <2>3, <3>2
  <2>5. CASE k - 1 # 0
    <3>1. PICK i \in 1 .. k - 1 : Top(i, k - 1)
      BY <1>2, <2>5
    <3>2. i \in 1 .. k /\ ids[i] \in Nat \X Nat
      BY <2>2, <2>3
    <3>3. CASE IdLess(ids[i], ids[k])
      <4>1. ASSUME NEW j \in 1 .. k PROVE ~IdLess(ids[k], ids[j])
        <5>1. CASE j = k
          BY <2>2, <5>1, IdOrder, Zenon
        <5>2. CASE j \in 1 .. k - 1
          <6>1. ~IdLess(ids[i], ids[j])
            BY <3>1, <5>2, Zenon
          <6>2. QED
            BY <2>2, <3>2, <3>3, <6>1, IdOrder, Zenon
        <5>3. QED
          BY <2>1, <5>1, <5>2, Zenon
      <4>2. QED
        BY <2>1, <2>3, <4>1
    <3>4. CASE ~IdLess(ids[i], ids[k])
      <4>1. Top(i, k)
        BY <2>1, <3>1, <3>4, Zenon
      <4>2. QED
        BY <2>1, <3>2, <4>1
    <3>5. QED
      BY <3>3, <3>4
  <2>6. QED
    BY <2>4, <2>5
<1>3. 0 \in Good
  BY <1>1
<1>4. m \in Good
  <2> HIDE DEF Good
  <2>1. 0 .. m \subseteq Good
    BY <1>1, <1>2, <1>3, Induct
  <2>2. QED
    BY <1>1, <2>1
<1>5. PICK i \in 1 .. m : Top(i, m)
  BY <1>1, <1>4
<1> DEFINE T == {ids[k] : k \in 1 .. m}
<1>6. ids[i] \in T /\ \A y \in T : ~IdLess(ids[i], y)
  BY <1>5, Zenon
<1> HIDE DEF T
<1>7. GreatestId(T) \in T /\ \A y \in T : ~IdLess(GreatestId(T), y)
  BY <1>6, Zenon DEF GreatestId
<1>8. QED
  BY <1>7, Zenon DEF T

(* A choice whose parts reach every place of the file chooses every id.     *)
LEMMA WholeChoice ==
    ASSUME NEW ids \in Seq(StoryIds), NEW parts,
           \A m \in 1 .. Len(ids) : \E p \in parts : m \in RangePart(p[1], p[2])
    PROVE  ParseStoryRange(parts, ids) = {ids[i] : i \in DOMAIN ids}
<1> DEFINE reach == UNION {RangePart(p[1], p[2]) : p \in parts}
<1>1. DOMAIN ids = 1 .. Len(ids)
  BY LenProperties
<1>2. 1 .. Len(ids) \subseteq reach
  <2>1. ASSUME NEW m \in 1 .. Len(ids) PROVE m \in reach
    BY Zenon
  <2>2. QED
    BY <2>1, Zenon
<1> HIDE DEF reach
<1>3. reach \cap 1 .. Len(ids) = 1 .. Len(ids)
  BY <1>2, Zenon
<1>4. ParseStoryRange(parts, ids) = {ids[i] : i \in reach \cap 1 .. Len(ids)}
  BY Zenon DEF ParseStoryRange, reach
<1>5. QED
  BY <1>1, <1>3, <1>4, Zenon

(* One range, the same the other way round, the places one by one, or a     *)
(* range that goes past the end: each reaches every place.                  *)
LEMMA PartsReach ==
    ASSUME NEW n \in Nat, n > 0,
           NEW parts \in {{<<1, n>>}, {<<n, 1>>}, {<<i, i>> : i \in 1 .. n}, {<<1, n + 1>>, <<n, n>>}},
           NEW m \in 1 .. n
    PROVE  \E p \in parts : m \in RangePart(p[1], p[2])
<1>1. CASE parts = {<<1, n>>}
  <2>1. m \in RangePart(1, n)
    BY DEF RangePart
  <2>2. <<1, n>> \in parts /\ <<1, n>>[1] = 1 /\ <<1, n>>[2] = n
    BY <1>1
  <2>3. QED
    BY <2>1, <2>2, Zenon
<1>2. CASE parts = {<<n, 1>>}
  <2>1. m \in RangePart(n, 1)
    BY DEF RangePart
  <2>2. <<n, 1>> \in parts /\ <<n, 1>>[1] = n /\ <<n, 1>>[2] = 1
    BY <1>2
  <2>3. QED
    BY <2>1, <2>2, Zenon
<1>3. CASE parts = {<<i, i>> : i \in 1 .. n}
  <2>1. m \in RangePart(m, m)
    BY DEF RangePart
  <2>2. <<m, m>> \in parts /\ <<m, m>>[1] = m /\ <<m, m>>[2] = m
    BY <1>3
  <2>3. QED
    BY <2>1, <2>2, Zenon
<1>4. CASE parts = {<<1, n + 1>>, <<n, n>>}
  <2>1. m \in RangePart(1, n + 1)
    BY DEF RangePart
  <2>2. <<1, n + 1>> \in parts /\ <<1, n + 1>>[1] = 1 /\ <<1, n + 1>>[2] = n + 1
    BY <1>4
  <2>3. QED
    BY <2>1, <2>2, Zenon
<1>5. QED
  BY <1>1, <1>2, <1>3, <1>4, Zenon

\* The ids of the first places of a file.
IdsUpTo(ids, m) == {ids[i] : i \in 1 .. m}

(* The choice of everything before a place is the ids before it.            *)
LEMMA ChoiceBefore ==
    ASSUME NEW ids \in Seq(StoryIds), NEW i \in 1 .. Len(ids)
    PROVE  ParseStoryRange({<<0, i - 1>>}, ids) = IdsUpTo(ids, i - 1)
<1> DEFINE parts == {<<0, i - 1>>}
           reach == UNION {RangePart(p[1], p[2]) : p \in parts}
<1>1. Len(ids) \in Nat /\ i - 1 \in Nat
  BY LenProperties
<1>2. RangePart(0, i - 1) = 0 .. i - 1
  BY <1>1 DEF RangePart
<1>3. \A p \in parts : p[1] = 0 /\ p[2] = i - 1
  OBVIOUS
<1>4. <<0, i - 1>> \in parts
  OBVIOUS
<1>5. \A k : k \in reach <=> k \in 0 .. i - 1
  <2> HIDE DEF parts
  <2>1. \A k : k \in reach <=> \E p \in parts : k \in RangePart(p[1], p[2])
    BY Zenon
  <2>2. QED
    BY <1>2, <1>3, <1>4, <2>1, Zenon
<1> HIDE DEF reach
<1>6. reach \cap 1 .. Len(ids) = 1 .. i - 1
  BY <1>1, <1>5
<1>7. ParseStoryRange(parts, ids) = {ids[k] : k \in reach \cap 1 .. Len(ids)}
  BY Zenon DEF ParseStoryRange, reach
<1>8. QED
  BY <1>6, <1>7, Zenon DEF IdsUpTo

(* Choosing every story completes the epic; leaving out the greatest does   *)
(* not.                                                                     *)
LEMMA ChoiceIs ==
    ASSUME epicFile \in Seq(BookLines)
    PROVE  ChoiceCompletesEpic
<1> DEFINE ids == ParseEpicFile(epicFile)
           n   == Len(ids)
           all == {ids[i] : i \in DOMAIN ids}
<1>1. ids \in Seq(StoryIds)
  <2>1. Len(epicFile) \in Nat /\ Len(epicFile) \in 0 .. Len(epicFile)
    BY LenProperties
  <2>2. QED
    BY <2>1, StoriesStep, Zenon DEF ParseEpicFile
<1> HIDE DEF ids
<1>2. n \in Nat /\ DOMAIN ids = 1 .. n
  BY <1>1, LenProperties
<1>3. all = IdsUpTo(ids, n)
  BY <1>2, Zenon DEF IdsUpTo
<1>4. \A chosen : EpicIsComplete(epicFile, chosen) <=> chosen # {} /\ GreatestId(chosen) = GreatestId(all)
  BY Zenon DEF EpicIsComplete, ids
<1> HIDE DEF all
<1> SUFFICES ASSUME n > 0
             PROVE  /\ \A parts \in {{<<1, n>>}, {<<n, 1>>}, {<<i, i>> : i \in 1 .. n}, {<<1, n + 1>>, <<n, n>>}} :
                         EpicIsComplete(epicFile, ParseStoryRange(parts, ids))
                    /\ \A i \in 1 .. n :
                         (\A j \in 1 .. n : j >= i => \A k \in 1 .. n : k < i => IdLess(ids[k], ids[j])) =>
                             ~EpicIsComplete(epicFile, ParseStoryRange({<<0, i - 1>>}, ids))
  BY Zenon DEF ChoiceCompletesEpic, ids
<1>5. n \in 1 .. n /\ 1 \in 1 .. n
  BY <1>2
<1>6. ASSUME NEW parts \in {{<<1, n>>}, {<<n, 1>>}, {<<i, i>> : i \in 1 .. n}, {<<1, n + 1>>, <<n, n>>}}
      PROVE  EpicIsComplete(epicFile, ParseStoryRange(parts, ids))
  <2>1. \A m \in 1 .. n : \E p \in parts : m \in RangePart(p[1], p[2])
    BY <1>2, <1>6, PartsReach
  <2>2. ParseStoryRange(parts, ids) = all
    BY <1>1, <2>1, WholeChoice, Zenon DEF all
  <2>3. all # {}
    BY <1>2, <1>5, Zenon DEF all
  <2>4. QED
    BY <1>4, <2>2, <2>3, Zenon
<1>7. ASSUME NEW i \in 1 .. n,
             \A j \in 1 .. n : j >= i => \A k \in 1 .. n : k < i => IdLess(ids[k], ids[j]),
             EpicIsComplete(epicFile, ParseStoryRange({<<0, i - 1>>}, ids))
      PROVE  FALSE
  <2> DEFINE some == IdsUpTo(ids, i - 1)
  <2>1. some # {} /\ GreatestId(some) = GreatestId(all)
    BY <1>1, <1>4, <1>7, ChoiceBefore, Zenon
  <2>2. i - 1 \in 1 .. n
    <3>1. PICK k \in 1 .. i - 1 : TRUE
      BY <2>1, Zenon DEF IdsUpTo
    <3>2. QED
      BY <1>2, <3>1
  <2>3. GreatestId(some) \in some
    BY <1>1, <2>2, GreatestAmong, Zenon DEF IdsUpTo
  <2>4. PICK k \in 1 .. i - 1 : GreatestId(some) = ids[k]
    BY <2>3, Zenon DEF IdsUpTo
  <2>5. k \in 1 .. n /\ k < i /\ i >= i
    BY <1>2, <2>2
  <2>6. IdLess(ids[k], ids[i])
    BY <1>7, <2>5, Zenon
  <2>7. \A y \in all : ~IdLess(GreatestId(all), y)
    BY <1>1, <1>3, <1>5, GreatestAmong, Zenon DEF IdsUpTo
  <2>8. ids[i] \in all
    BY <1>3, Zenon DEF IdsUpTo
  <2>9. QED
    BY <2>1, <2>4, <2>6, <2>7, <2>8, Zenon
<1>8. QED
  BY <1>6, <1>7, Zenon

(* A line more lowers no level, unless it is the first to name a reducer.   *)
LEMMA NoneSimpler ==
    ASSUME epicFile \in Seq(BookLines), NEW l \in BookLines, epicFile' = Append(epicFile, l)
    PROVE  OnlyReducersSimplify
<1> DEFINE more == Append(epicFile, l)
<1>1. more \in Seq(BookLines)
  BY AppendProperties
<1> HIDE DEF more
<1>2. ASSUME NEW id \in StoryIds, HeaderAt(epicFile, id) # {}
      PROVE  LET old     == Section(epicFile, id)
                 new     == Section(more, id)
                 reduced == Names(new, "easy") /\ ~Names(old, "easy")
             IN  /\ ~reduced => ComplexityLevel(ComplexityScore(new)) >= ComplexityLevel(ComplexityScore(old))
                 /\ reduced => ComplexityScore(new) >= ComplexityScore(old) + Scores.easyScore
  <2> DEFINE s == Section(epicFile, id)
             t == Section(more, id)
  <2>1. GoesOn(s, t)
    BY <1>2, SectionGrows, Zenon DEF more
  <2>2. HeaderAt(more, id) # {}
    <3>1. DOMAIN epicFile = 1 .. Len(epicFile) /\ Len(epicFile) \in Nat
      BY LenProperties
    <3>2. DOMAIN more = 1 .. Len(epicFile) + 1 /\ \A i \in 1 .. Len(epicFile) : more[i] = epicFile[i]
      BY LenProperties, AppendProperties DEF more
    <3>3. PICK i \in 1 .. Len(epicFile) : i \in HeaderAt(epicFile, id)
      BY <1>2, <3>1 DEF HeaderAt
    <3>4. i \in HeaderAt(more, id)
      BY <3>1, <3>2, <3>3 DEF HeaderAt
    <3>5. QED
      BY <3>4
  <2>3. s \in Seq(BookLines) /\ t \in Seq(BookLines)
    BY <1>1, <1>2, <2>2, SectionIs, Zenon
  <2> HIDE DEF s, t
  <2> DEFINE reduced == Names(t, "easy") /\ ~Names(s, "easy")
  <2>4. /\ ~reduced => ComplexityScore(s) <= ComplexityScore(t)
        /\ reduced => ComplexityScore(s) + Scores.easyScore <= ComplexityScore(t)
        /\ ComplexityScore(s) \in Int /\ ComplexityScore(t) \in Int
    BY <2>1, <2>3, ScoreGrows, Zenon
  <2>5. ~reduced => ComplexityLevel(ComplexityScore(t)) >= ComplexityLevel(ComplexityScore(s))
    BY <2>4, LevelGrows, Zenon
  <2>6. reduced => ComplexityScore(t) >= ComplexityScore(s) + Scores.easyScore
    BY <2>4, ScoresAre
  <2>7. QED
    BY <2>5, <2>6, Zenon DEF s, t, reduced
<1>3. QED
  BY <1>2, Zenon DEF OnlyReducersSimplify, more

\* What a file is between two lines: some lines, each story with its own, and
\* the choice of all of them the whole epic.
BookInv == epicFile \in Seq(BookLines) /\ OwnLinesOnly /\ ChoiceCompletesEpic

(* A file of lines is read as it is written.                                *)
LEMMA FileIsRead == epicFile \in Seq(BookLines) => BookInv
<1> SUFFICES ASSUME epicFile \in Seq(BookLines) PROVE OwnLinesOnly /\ ChoiceCompletesEpic
  BY Zenon DEF BookInv
<1>1. ChoiceCompletesEpic
  BY ChoiceIs, Zenon
<1>2. OwnLinesOnly
  BY OwnLines, Zenon DEF OwnLinesOnly
<1>3. QED
  BY <1>1, <1>2

(* However long an epic and whatever its lines: a story has its own lines   *)
(* and no others, the choice of every story is the whole epic and a choice  *)
(* without the last is not, and a line more makes a story simpler only if   *)
(* it is the first to name a reducer (parse_story, parse_story_range,       *)
(* epic_complete).                                                          *)
THEOREM EpicCorrect == BookSpec => EpicIsRead
<1>1. BookInit => BookInv
  BY FileIsRead, EmptySeq, Zenon DEF BookInit
<1>2. ASSUME BookInv, [BookNext]_bookVars
      PROVE  BookInv' /\ [(OwnLinesOnly /\ ChoiceCompletesEpic)' /\ OnlyReducersSimplify]_bookVars
  <2>1. CASE BookNext
    <3>1. PICK l \in BookLines : epicFile' = Append(epicFile, l)
      BY <2>1, Zenon DEF BookNext, AddLine, BookLines
    <3>2. epicFile \in Seq(BookLines)
      BY <1>2, Zenon DEF BookInv
    <3>3. Append(epicFile, l) \in Seq(BookLines)
      BY <3>2, AppendProperties
    <3>4. (epicFile \in Seq(BookLines))'
      BY <3>1, <3>3, Zenon
    <3>5. (epicFile \in Seq(BookLines) => BookInv)'
      BY FileIsRead, PTL
    <3>6. BookInv'
      BY <3>4, <3>5, Zenon
    <3>7. OnlyReducersSimplify
      BY <3>1, <3>2, NoneSimpler, Zenon
    <3>8. QED
      BY <3>6, <3>7, Zenon DEF BookInv
  <2>2. CASE UNCHANGED bookVars
    <3>1. epicFile' = epicFile
      BY <2>2, Zenon DEF bookVars
    <3>2. (epicFile \in Seq(BookLines))'
      BY <1>2, <3>1, Zenon DEF BookInv
    <3>3. (epicFile \in Seq(BookLines) => BookInv)'
      BY FileIsRead, PTL
    <3>4. QED
      BY <2>2, <3>2, <3>3, Zenon
  <2>3. QED
    BY <1>2, <2>1, <2>2
<1>3. QED
  BY <1>1, <1>2, PTL DEF BookSpec, EpicIsRead
=============================================================================
