CONSTANTS
    Controllers = {c1}
    Calls = {}
    MaxFlights = 2
    MaxApiCalls = 0
SPECIFICATION ModesSpec
INVARIANT ArmedShowsFlight
