----------------------------- MODULE Shortcuts ------------------------------
(***************************************************************************)
(* server/shortcuts.c: what the words of a shortcut mean, which            *)
(* combinations of keys are grabbed for it, and whose handlers the release *)
(* of a key calls.  A set of modifiers is the mask of its bits.            *)
(***************************************************************************)
EXTENDS Integers, SequencesExt

CONSTANTS
    Keycodes     \* keysym |-> the keycodes the X server has for it

\* modifier_records, in its order, and the bit of each modifier.
modifier_records == <<"Shift", "CapsLock", "Ctrl", "Alt",
                      "NumLock", "AltLang", "Kana", "ScrollLock">>
MOD_MASK == [Shift |-> 1, CapsLock |-> 2, Ctrl |-> 4, Alt |-> 8, NumLock |-> 16,
             AltLang |-> 32, Kana |-> 64, ScrollLock |-> 128]

Modifiers       == DOMAIN MOD_MASK
EXTRA_MODIFIERS == {"CapsLock", "NumLock", "AltLang", "Kana", "ScrollLock"}

Bits(mask) == {m \in Modifiers : (mask \div MOD_MASK[m]) % 2 = 1}
Mask(mods) ==
    LET on(m) == IF m \in mods THEN MOD_MASK[m] ELSE 0
    IN  on("Shift") + on("CapsLock") + on("Ctrl") + on("Alt") + on("NumLock")
        + on("AltLang") + on("Kana") + on("ScrollLock")

\* strncmp over the length of the word: a word is every beginning of a title.
Begins(word, title) ==
    Len(word) <= Len(title) /\ SubSeq(title, 1, Len(word)) = word

\* What the provers do not know of the letters of the titles: none begins
\* another, but that "Alt" begins "AltLang".
ASSUME TitlesAssumption ==
    \A t, u \in Modifiers :
        Begins(t, u) <=> t = u \/ (t = "Alt" /\ u = "AltLang")

\* Mutant of Modifier: the last title that begins with the word is taken.
ModifierLast(word) ==
    SelectLastInSeq(modifier_records, LAMBDA t : Begins(word, t))

\* Number of the modifier a word is taken for; 0 if there is none.
Modifier(word) ==
    SelectInSeq(modifier_records, LAMBDA t : Begins(word, t))

\* The words before the last are modifiers, the last is the key.
shortcuts_parse(words) ==
    LET mods == [i \in 1 .. Len(words) - 1 |-> Modifier(words[i])]
        key  == words[Len(words)]
    IN  CASE 0 \in Range(mods) -> [error |-> "modifier"]
          [] 0 \notin Range(mods) /\ key \notin DOMAIN Keycodes ->
                [error |-> "key"]
          [] 0 \notin Range(mods) /\ key \in DOMAIN Keycodes ->
                [error |-> "none", keycodes |-> Keycodes[key],
                 modifiers |-> {modifier_records[i] : i \in Range(mods)}]

-----------------------------------------------------------------------------
\* Mutant of Submasks: the loop tests submask before its body.
SubmasksNonzero(rem) ==
    LET f[submask \in 0 .. Mask(rem)] ==
            IF submask = 0 THEN {}
            ELSE {submask} \cup f[Mask(Bits(submask - 1) \cap rem)]
    IN  f[Mask(rem)]

\* The loop of grab_keycode: submask = (submask - 1) & rem_modifiers.
Submasks(rem) ==
    LET f[submask \in 0 .. Mask(rem)] ==
            IF submask = 0 THEN {0}
            ELSE {submask} \cup f[Mask(Bits(submask - 1) \cap rem)]
    IN  f[Mask(rem)]

\* What is grabbed for a hotkey: for each keycode, its modifiers with every
\* combination of the extra ones.
grab_hotkey(hotkey) ==
    {<<hotkey.modifiers \cup Bits(s), code>> :
        s \in Submasks(EXTRA_MODIFIERS \ hotkey.modifiers),
        code \in hotkey.keycodes}

\* Mutant of Calls: the state must be that of the hotkey.
CallsExact(hotkey, state, detail) ==
    hotkey.modifiers = state /\ detail \in hotkey.keycodes

\* The release of key detail with modifiers state calls a hotkey's handler.
Calls(hotkey, state, detail) ==
    hotkey.modifiers \subseteq state /\ detail \in hotkey.keycodes

\* The handlers one release calls.
Called(shortcuts, state, detail) ==
    {shortcuts[i].handler : i \in {j \in DOMAIN shortcuts :
                                     Calls(shortcuts[j].hotkey, state, detail)}}
=============================================================================
