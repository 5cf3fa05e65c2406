----------------------------- MODULE CustomFields -----------------------------
(***************************************************************************)
(* The fields that a center adds to its students, their values, the categories *)
(* of students (routers/management.py), and the public form whose answers      *)
(* become values (routers/student_registration.py). That an application makes  *)
(* one student, whoever decides on it, is in Students.                         *)
(*                                                                         *)
(* A request is one action here: what it checks it reads before it writes, and *)
(* requests that overlap can leave values that no longer fit.                  *)
(*                                                                         *)
(* A value is a word, a number, a date or a truth value in the form in which it *)
(* is kept, something blank, or white space. The order of fields, lengths,       *)
(* who made a field, and a form's questions about the student are left out.      *)
(***************************************************************************)
EXTENDS Rows, FiniteSets

CONSTANTS Fields, Categories,  \* ids
          FieldNames, CategoryNames,
          Members,             \* students
          Submissions          \* student_registration_requests

Typed == {"word", "number", "date", "truth"}
Raw == Typed \cup {"", " "}
FieldTypes == {"text", "number", "date", "checkbox", "select"}

VARIABLES member,    \* the students there are
          field,     \* student_custom_fields
          value,     \* student_custom_field_values
          category,  \* student_categories: the name of each
          belongs,   \* student_category_memberships: the categories of each student
          form,      \* student_registration_forms: one, or None
          answered,  \* student_registration_requests: status and answers
          complete   \* history: students saved since the fields changed last

fieldVars == <<member, field, value, category, belongs, form, answered, complete>>

-----------------------------------------------------------------------------
\* A select field has options, and no other field has.
Field == {f \in [name : FieldNames, type : FieldTypes, options : SUBSET Typed,
                 required : BOOLEAN, active : BOOLEAN] :
             (f.type = "select") <=> (f.options # {})}

ASSUME FieldsAssumption == None \notin Typed \cup Field

Fits(f, v) ==
    \/ f.type = "text"
    \/ f.type = "number" /\ v = "number"
    \/ f.type = "date" /\ v = "date"
    \/ f.type = "checkbox" /\ v = "truth"
    \/ f.type = "select" /\ v \in f.options

\* normalize_student_custom_value: when it raises no error, and what is kept.
Normal(f, raw) == IF raw \in {"", " "} THEN None ELSE raw
Takes(f, raw) ==
    \/ raw = "" /\ ~f.required
    \/ raw = " " /\ f.type = "text"
    \/ raw \in Typed /\ Fits(f, raw)

There == {f \in Fields : field[f] # None}
Active == {f \in There : field[f].active}
KeptValues(f) == {value[s][f] : s \in Members} \ {None}
NameFree(name, f) == \A g \in There \ {f} : field[g].name # name

FieldsInit ==
    /\ field = [f \in Fields |-> None]
    /\ value = [s \in Members |-> [f \in Fields |-> None]]
    /\ category = [c \in Categories |-> None]
    /\ belongs = [s \in Members |-> {}]
    /\ member = {}
    /\ form = None
    /\ answered = [a \in Submissions |-> None]
    /\ complete = {}

-----------------------------------------------------------------------------
(* Fields.                                                                   *)

\* create_student_custom_field
CreateField(f, body) ==
    /\ field[f] = None /\ body.active
    /\ NameFree(body.name, f)
    /\ field' = [field EXCEPT ![f] = body]
    /\ complete' = {}
    /\ UNCHANGED <<member, value, category, belongs, form, answered>>

\* update_student_custom_field: the type is locked by values, and options in
\* use stay.
OptionsStay(f, body) == body.type = "select" => KeptValues(f) \subseteq body.options
AnyType(f, body) == OptionsStay(f, body)
TypeStays(f, body) == /\ body.type # field[f].type => KeptValues(f) = {}
                      /\ OptionsStay(f, body)
UpdateField(f, body) ==
    /\ f \in There
    /\ NameFree(body.name, f)
    /\ TypeStays(f, body)
    /\ field' = [field EXCEPT ![f] = body]
    /\ complete' = {}
    /\ UNCHANGED <<member, value, category, belongs, form, answered>>

\* apply_student_custom_field_values: fields that are not sent keep their values,
\* and every active required field must have one in the end.
Applied(s, raws) ==
    [f \in Fields |-> IF f \in DOMAIN raws THEN Normal(field[f], raws[f]) ELSE value[s][f]]
Satisfies(s, raws) ==
    /\ DOMAIN raws \subseteq Active
    /\ \A f \in DOMAIN raws : Takes(field[f], raws[f])
    /\ \A f \in Active : field[f].required => Applied(s, raws)[f] # None

SetValues(s, raws) ==
    /\ Satisfies(s, raws)
    /\ value' = [value EXCEPT ![s] = Applied(s, raws)]
    /\ complete' = complete \cup {s}

\* update_student_custom_field_values
UpdateValues(s, raws) ==
    /\ s \in member
    /\ SetValues(s, raws)
    /\ UNCHANGED <<member, field, category, belongs, form, answered>>

-----------------------------------------------------------------------------
(* Categories.                                                               *)

NamedCategories == {c \in Categories : category[c] # None}
CategoryFree(name, c) == \A d \in NamedCategories \ {c} : category[d] # name

\* create_student_category and update_student_category
CreateCategory(c, name) ==
    /\ category[c] = None
    /\ CategoryFree(name, c)
    /\ category' = [category EXCEPT ![c] = name]
    /\ UNCHANGED <<member, field, value, belongs, form, answered, complete>>
RenameCategory(c, name) ==
    /\ category[c] # None
    /\ CategoryFree(name, c)
    /\ category' = [category EXCEPT ![c] = name]
    /\ UNCHANGED <<member, field, value, belongs, form, answered, complete>>

\* delete_student_category
DeleteCategory(c) ==
    /\ category[c] # None
    /\ category' = [category EXCEPT ![c] = None]
    /\ belongs' = [s \in Members |-> belongs[s] \ {c}]
    /\ UNCHANGED <<member, field, value, form, answered, complete>>

\* set_student_categories
SetCategories(s, cs) ==
    /\ cs \subseteq NamedCategories
    /\ belongs' = [belongs EXCEPT ![s] = cs]

-----------------------------------------------------------------------------
(* Students, who take their values and categories with them.                  *)

\* create_student; update_student may leave categories or values as they are.
CreateMember(s, cs, raws) ==
    /\ s \notin member
    /\ member' = member \cup {s}
    /\ SetCategories(s, cs) /\ SetValues(s, raws)
    /\ UNCHANGED <<field, category, form, answered>>
UpdateMember(s, cs, raws) ==
    /\ s \in member
    /\ IF cs = None THEN UNCHANGED belongs ELSE SetCategories(s, cs)
    /\ IF raws = None THEN UNCHANGED <<value, complete>> ELSE SetValues(s, raws)
    /\ UNCHANGED <<member, field, category, form, answered>>

\* delete_student, with the rows that hang on the student
DeleteMember(s) ==
    /\ s \in member
    /\ member' = member \ {s}
    /\ value' = [value EXCEPT ![s] = [f \in Fields |-> None]]
    /\ belongs' = [belongs EXCEPT ![s] = {}]
    /\ complete' = complete \ {s}
    /\ UNCHANGED <<field, category, form, answered>>

-----------------------------------------------------------------------------
(* The public form. The answers to a submission do not lock a field's type:     *)
(* what was a word may be a number's field when the submission is approved.      *)

\* save_form
SaveForm(fs, open) ==
    /\ fs \subseteq Active
    /\ form' = [public |-> fs, active |-> open]
    /\ UNCHANGED <<member, field, value, category, belongs, answered, complete>>

\* submit, by an applicant who saw the form: every field that is public by now is
\* answered, if only with nothing, and none else.
Public == form.public \cap Active
Submitting(a, raws) ==
    /\ answered[a] = None
    /\ form # None /\ form.active
    /\ DOMAIN raws \subseteq Public
    /\ LET Sent(f) == IF f \in DOMAIN raws THEN raws[f] ELSE ""
       IN /\ \A f \in Public : Takes(field[f], Sent(f))
          /\ answered' = [answered EXCEPT ![a] =
                 [status |-> "pending",
                  answers |-> [f \in Public |-> Normal(field[f], Sent(f))]]]
    /\ UNCHANGED <<member, field, value, category, belongs, form, complete>>

Decide(a, status) ==
    /\ answered[a] # None /\ answered[a].status = "pending"
    /\ answered' = [answered EXCEPT ![a].status = status]

\* reject
RejectSubmission(a) ==
    /\ Decide(a, "rejected")
    /\ UNCHANGED <<member, field, value, category, belongs, form, complete>>

\* approve: the answers to fields that are active still, and over them what the
\* manager fills in; all of it is checked against the fields as they are now.
Merged(a, raws) ==
    [f \in (DOMAIN answered[a].answers \cap Active) \cup DOMAIN raws |->
        IF f \in DOMAIN raws THEN raws[f]
        ELSE IF answered[a].answers[f] = None THEN "" ELSE answered[a].answers[f]]
ApproveSubmission(a, s, cs, raws) ==
    /\ Decide(a, "approved")
    /\ s \notin member
    /\ member' = member \cup {s}
    /\ SetCategories(s, cs) /\ SetValues(s, Merged(a, raws))
    /\ UNCHANGED <<field, category, form>>

-----------------------------------------------------------------------------
Raws == UNION {[fs -> Raw] : fs \in SUBSET Fields}

FieldsNext ==
    \/ \E f \in Fields, body \in Field : CreateField(f, body) \/ UpdateField(f, body)
    \/ \E s \in Members, raws \in Raws : UpdateValues(s, raws)
    \/ \E c \in Categories, n \in CategoryNames : CreateCategory(c, n) \/ RenameCategory(c, n)
    \/ \E c \in Categories : DeleteCategory(c)
    \/ \E s \in Members, cs \in SUBSET Categories, raws \in Raws : CreateMember(s, cs, raws)
    \/ \E s \in Members, cs \in SUBSET Categories \cup {None}, raws \in Raws \cup {None} :
          UpdateMember(s, cs, raws)
    \/ \E s \in Members : DeleteMember(s)
    \/ \E fs \in SUBSET Fields, open \in BOOLEAN : SaveForm(fs, open)
    \/ \E a \in Submissions, raws \in Raws : Submitting(a, raws)
    \/ \E a \in Submissions : RejectSubmission(a)
    \/ \E a \in Submissions, s \in Members, cs \in SUBSET Categories, raws \in Raws :
          ApproveSubmission(a, s, cs, raws)

FieldsSpec == FieldsInit /\ [][FieldsNext]_fieldVars

-----------------------------------------------------------------------------
\* Types of fields, values, categories and memberships.
Answers == UNION {[fs -> Typed \cup {None}] : fs \in SUBSET Fields}
Submission == [status : {"pending", "approved", "rejected"}, answers : Answers]
Form == [public : SUBSET Fields, active : BOOLEAN]

FieldsTypeOK ==
    /\ member \subseteq Members
    /\ field \in [Fields -> Field \cup {None}]
    /\ value \in [Members -> [Fields -> Typed \cup {None}]]
    /\ category \in [Categories -> CategoryNames \cup {None}]
    /\ belongs \in [Members -> SUBSET Categories]
    /\ form \in Form \cup {None}
    /\ answered \in [Submissions -> Submission \cup {None}]
    /\ complete \subseteq Members

\* However fields are changed, values saved and old answers approved, one request
\* after the other, each value fits its field's type and options, and a student
\* saved since the fields changed has every required value (management.py:209 and
\* 334, student_registration.py:270).
ValuesInOrder ==
    \A s \in Members :
        /\ \A f \in Fields : value[s][f] # None => s \in member /\ f \in There /\ Fits(field[f], value[s][f])
        /\ s \in complete => \A f \in Active : field[f].required => value[s][f] # None
===============================================================================
