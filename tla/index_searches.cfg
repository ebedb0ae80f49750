\* Two searches of a request beside two seeds.
SPECIFICATION Spec
CONSTANTS
    first = first  second = second
    vacation = vacation  expenses = expenses
    leave = leave  carry = carry  meals = meals
    march = march  june = june
    Searches = {first, second}
    Corpora <- TheCorpora
    PolicyOf <- ThePolicies
    K = 2
    Candidates = 3
    TopK = 2
    MaxSeeds = 2
SYMMETRY Twins
INVARIANTS RanksAreRespected PassagesOfOneCorpus UndisturbedSearchIsExact UndisturbedRecordIsExact
\* the request ends
CHECK_DEADLOCK FALSE
