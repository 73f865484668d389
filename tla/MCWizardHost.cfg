\* Typed characters: 'a' and the quit key 'q'.  Fields up to 2 characters;
\* the cursor may run one past the longest list (8 editions).
CONSTANTS
    Chars = {"a", "q"}
    MaxLen = 2
    MaxCursor = 9
SPECIFICATION Spec




INVARIANT HostnameDefaultOrTyped
