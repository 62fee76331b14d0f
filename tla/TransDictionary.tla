--------------------------- MODULE TransDictionary ---------------------------
(***************************************************************************)
(* What the translation database (trans/db.go and its tools) promises, with *)
(* no tables, ids or transactions: the text SEGA gave every entry of the    *)
(* game's text files, and the text each translation gives it instead.  A    *)
(* key stands for one entry: archive, file, identifier, and how many        *)
(* entries of that identifier come before it in the file.                   *)
(***************************************************************************)
CONSTANTS Keys,
          Texts,
          Names,    \* of translations
          Imports,  \* what one import may find: functions from keys to texts
          Empty,    \* the text of a stripped entry
          NoString  \* no entry, or no translation of it

VARIABLES source,   \* of every key, SEGA's text
          target,   \* of every translation and key, the translated text
          whole     \* the last import has taken in all it was given

dictionary == <<source, target, whole>>

DictInit ==
    /\ source = [k \in Keys |-> NoString]
    /\ target = [n \in Names |-> [k \in Keys |-> NoString]]
    /\ whole = TRUE

Taken(old, new, part) == [k \in Keys |-> IF k \in part THEN new[k] ELSE old[k]]

\* An import that leaves entries out says so.
Part(new, part) == part \subseteq DOMAIN new /\ (whole' => part = DOMAIN new)

ImportOriginals(new) ==
    /\ UNCHANGED target
    /\ \E part \in SUBSET DOMAIN new :
          source' = Taken(source, new, part) /\ Part(new, part)

\* Only what differs from SEGA's text is a translation.
Differing(new, old) == {k \in DOMAIN new : old[k] \notin {NoString, new[k]}}

ImportTranslation(n, new) ==
    /\ UNCHANGED source
    /\ \E part \in SUBSET DOMAIN new :
          /\ target' = [target EXCEPT ![n] = Taken(@, new, part \cap Differing(new, source))]
          /\ Part(new, part)

\* Stripping takes SEGA's texts out, and then entries that nobody has translated.
Clear ==
    /\ source' = [k \in Keys |-> IF source[k] = NoString THEN NoString ELSE Empty]
    /\ UNCHANGED <<target, whole>>

Forget ==
    /\ \E gone \in SUBSET {k \in Keys : \A n \in Names : target[n][k] = NoString} :
          source' = [k \in Keys |-> IF k \in gone THEN NoString ELSE source[k]]
    /\ UNCHANGED <<target, whole>>

\* Nothing changes but that a new import has begun.
Begin == whole' = TRUE /\ UNCHANGED <<source, target>>

DictNext ==
    \/ Begin \/ Clear \/ Forget
    \/ \E new \in Imports : ImportOriginals(new)
    \/ \E n \in Names, new \in Imports : ImportTranslation(n, new)

DictSpec == DictInit /\ [][DictNext]_dictionary

\* What patching makes of a file.
Patch(n, file) ==
    [k \in DOMAIN file |-> IF target[n][k] = NoString THEN file[k] ELSE target[n][k]]
=============================================================================
