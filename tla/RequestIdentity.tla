--------------------------- MODULE RequestIdentity --------------------------
(***************************************************************************)
(* What makes two batch requests the same request: the canonical form of   *)
(* key terms, the preimage of the request fingerprint (identity.rs), and   *)
(* the bounds that capabilities (batch_capabilities.rs) and storage        *)
(* (records.rs) put on key terms.                                          *)
(*                                                                         *)
(* A key term is a text of UnicodeText.                                    *)
(***************************************************************************)
EXTENDS UnicodeText

CONSTANTS
    MaxKeyterms,       \* MAX_KEYTERMS
    MaxKeytermBytes,   \* MAX_KEYTERM_BYTES of the request, maximum_key_term_bytes
    MaxScalars,        \* maximum_key_term_characters of ElevenLabs
    MaxWords,          \* maximum_key_term_words of ElevenLabs
    MaxStoredBytes     \* MAX_KEYTERMS_BYTES: storage's bound on all of them

ASSUME BoundsAssumption ==
    {MaxKeyterms, MaxKeytermBytes, MaxScalars, MaxWords, MaxStoredBytes} \subseteq Nat

Contracts == {"deepgram_v2", "elevenlabs_v3"}

\* Lexicographic order of two sequences of numbers.
Before(s, t) ==
    \E n \in 0 .. Len(s) :
        /\ n <= Len(t) /\ SubSeq(s, 1, n) = SubSeq(t, 1, n)
        /\ \/ n = Len(s) /\ n < Len(t)
           \/ n < Len(s) /\ n < Len(t) /\ s[n + 1] < t[n + 1]

\* str's own order: by scalar values, which is the order of UTF-8 bytes.
compare_str(s, t) == Before(s, t)

compare_utf16(s, t) == Before(Utf16Units(s), Utf16Units(t))

\* The members of a finite set in the strict order Less.
Sorted(S, Less(_, _)) ==
    [n \in 1 .. Cardinality(S) |->
        CHOOSE x \in S : Cardinality({y \in S : Less(y, x)}) = n - 1]

validate_keyterm(term) ==
    /\ term # <<>>
    /\ \A i \in DOMAIN term : ~IsControl(term[i])
    /\ Bytes(term) <= MaxKeytermBytes

CanCanonicalize(terms) ==
    /\ Len(terms) <= MaxKeyterms
    /\ \A i \in DOMAIN terms : validate_keyterm(trim(terms[i]))

\* Mutant: repeated terms are kept.
canonicalize_keyterms_Repeats(terms) ==
    SortSeq([i \in DOMAIN terms |-> trim(terms[i])], compare_utf16)

\* Trimmed, sorted by UTF-16 units and without repetition.
canonicalize_keyterms(terms) ==
    Sorted({trim(terms[i]) : i \in DOMAIN terms}, compare_utf16)

\* validate_keyterms of the fingerprint: canonical input or nothing.
CanonicalKeyterms(terms) ==
    /\ Len(terms) <= MaxKeyterms
    /\ \A i \in DOMAIN terms : validate_keyterm(terms[i]) /\ trim(terms[i]) = terms[i]
    /\ \A i \in 2 .. Len(terms) : compare_utf16(terms[i - 1], terms[i])

-----------------------------------------------------------------------------
(* The fingerprint *)

ContractVersion(contract) == IF contract = "deepgram_v2" THEN 2 ELSE 3
\* Provider, model and language of a contract, as one part.
IdentityPart(contract) == IF contract = "deepgram_v2" THEN <<100>> ELSE <<101, 102>>

\* Mutant: parts are written without their length.
write_part_Unframed(bytes) == bytes

write_part(bytes) == <<Len(bytes)>> \o bytes

\* SHA-256, taken as injective: a fixed number of tokens that hold the input.
Digest(audio) == <<-1>> \o audio

Preimage(contract, terms, audio) ==
    write_part(<<ContractVersion(contract)>>)
        \o write_part(IdentityPart(contract))
        \o <<Len(terms)>>
        \o FlattenSeq([i \in DOMAIN terms |-> write_part(terms[i])])
        \o write_part(IF ContractVersion(contract) = 2 THEN audio ELSE Digest(audio))

CanFingerprint(terms, audio) == CanonicalKeyterms(terms) /\ audio # <<>>

request_fingerprint(contract, terms, audio) == Digest(Preimage(contract, terms, audio))

-----------------------------------------------------------------------------
(* Bounds on key terms elsewhere *)

\* validate_key_terms of a capability descriptor.
validate_key_terms(contract, terms) ==
    /\ Len(terms) <= MaxKeyterms
    /\ \A i \in DOMAIN terms :
        LET term == terms[i]
        IN  /\ term # <<>> /\ trim(term) = term
            /\ Bytes(term) <= MaxKeytermBytes
            /\ \A j \in DOMAIN term : ~IsControl(term[j])
            /\ contract = "elevenlabs_v3" =>
                /\ NormalizedScalars(term) <= MaxScalars
                /\ Words(term) <= MaxWords
                /\ Bracket \notin Range(term)

\* The record adapter's validate_keyterms.
StorableKeyterms(terms) ==
    /\ Len(terms) <= MaxKeyterms
    /\ \A i \in DOMAIN terms :
        /\ terms[i] # <<>> /\ trim(terms[i]) = terms[i] /\ Tab \notin Range(terms[i])
        /\ Bytes(terms[i]) <= MaxKeytermBytes
    /\ SumFunction([i \in DOMAIN terms |-> Bytes(terms[i])]) <= MaxStoredBytes

\* What the ElevenLabs adapter sends: white space collapsed, no repetition.
provider_keyterms(terms) ==
    Sorted({ProviderTerm(terms[i]) : i \in DOMAIN terms}, compare_str)
=============================================================================
